---- MODULE Spec2Model ----
(***************************************************************************)
(* A model of gcal-cli's calendar client (package calendar): the retry     *)
(* wrapper withRetry, the error classifier handleAPIError, the single-event*)
(* operations built on them, the concurrent batch operations, the          *)
(* multi-calendar operations and the free/busy calls.  Client.Service is   *)
(* taken to be set.                                                        *)
(*                                                                         *)
(* Error values.  A Go error is modelled as a record with a field ref:     *)
(*   "nil"         the nil error                                           *)
(*   "googleapi"   a *googleapi.Error with its HTTP status in Code         *)
(*   "other"       any other error of the transport (not a googleapi one)  *)
(*   "new"         a freshly allocated *types.AppError (its fields follow) *)
(*   "ErrAPIError" the pointer held by the package variable                *)
(*                 types.ErrAPIError; the fields of the object it points   *)
(*                 to are the state variable ErrAPIError, since            *)
(*                 WithDetails and WithWrappedError assign through the     *)
(*                 pointer.                                                *)
(* A formatted string is the record Sprintf(format, strings, integers).    *)
(***************************************************************************)
EXTENDS Integers, Sequences, FiniteSets, TLC

\* ------------------------------------------------------------------ bounds
\* Largest Client.MaxRetries explored (NewClient sets 3).
MaxRetriesBound == 3
\* Largest Client.RetryDelay explored, in seconds (NewClient sets 1).
MaxRetryDelay == 2
\* Largest number of items handed to one batch call.
MaxItems == 2
\* Largest BatchParams.MaxConcurrent explored above the documented limit.
MaxConcurrentBound == 11
\* Longest calendarIDs list of a multi-calendar call.
MaxCalendars == 2
\* Most events one calendar returns to a list call.
MaxEvents == 2
\* Last second of the time line of the free/busy calls.
MaxSecond == 2
\* Longest slotDuration, in ticks.
MaxSlotDuration == 2

\* ------------------------------------------------------- pkg/types/errors.go
ErrCodeAuthFailed == "AUTH_FAILED"
ErrCodeInvalidInput == "INVALID_INPUT"
ErrCodeMissingRequired == "MISSING_REQUIRED"
ErrCodeInvalidTimeRange == "INVALID_TIME_RANGE"
ErrCodeNotFound == "NOT_FOUND"
ErrCodeRateLimit == "RATE_LIMIT"
ErrCodeAPIError == "API_ERROR"
ErrCodePermissionDenied == "PERMISSION_DENIED"
ErrCodeNetworkError == "NETWORK_ERROR"

Sprintf(format, strs, ints) == [fmt |-> format, s |-> strs, d |-> ints]

Str(text) == Sprintf(text, <<>>, <<>>)

Nil == [ref |-> "nil"]

\* The message every modelled remote error carries (apiErr.Message).
ApiMessage == "remote message"

GoogleAPIError(status) == [ref |-> "googleapi", Code |-> status, Message |-> ApiMessage]

OtherError == [ref |-> "other"]

ErrAPIErrorRef == [ref |-> "ErrAPIError"]

NewAppError(code, message, recoverable) ==
  [ref |-> "new", Code |-> code, Message |-> message, Details |-> Str(""),
   Recoverable |-> recoverable, SuggestedAction |-> Str(""), wrapped |-> Nil]

WithDetails(e, details) == [e EXCEPT !.Details = details]

WithSuggestedAction(e, action) == [e EXCEPT !.SuggestedAction = action]

WithWrappedError(e, err) == [e EXCEPT !.wrapped = err]

ErrAuthFailed(message) ==
  WithSuggestedAction(NewAppError(ErrCodeAuthFailed, Str(message), TRUE),
                      Str("Run 'gcal-cli auth login' to authenticate"))

ErrInvalidInput(field, reason) ==
  WithDetails(NewAppError(ErrCodeInvalidInput,
                          Sprintf("Invalid value for %s", <<field>>, <<>>), TRUE),
              reason)

ErrMissingRequired(field) ==
  WithSuggestedAction(NewAppError(ErrCodeMissingRequired,
                                  Sprintf("Required field '%s' is missing", <<field>>, <<>>),
                                  TRUE),
                      Sprintf("Provide the --%s flag", <<field>>, <<>>))

ErrNotFound(resource, id) ==
  WithDetails(NewAppError(ErrCodeNotFound, Sprintf("%s not found", <<resource>>, <<>>), FALSE),
              Sprintf("ID: %s", <<id>>, <<>>))

ErrRateLimit ==
  WithSuggestedAction(NewAppError(ErrCodeRateLimit, Str("API rate limit exceeded"), TRUE),
                      Str("Wait a moment and try again"))

ErrNetworkError(message) ==
  WithSuggestedAction(NewAppError(ErrCodeNetworkError, Str(message), TRUE),
                      Str("Check your internet connection and try again"))

\* The object the package variable ErrAPIError points to, as initialised.
ErrAPIErrorInit ==
  [NewAppError(ErrCodeAPIError, Str("API operation failed"), TRUE) EXCEPT !.ref = "ErrAPIError"]

\* The fields behind an error value: the shared object for the package
\* pointer, the value itself otherwise.
Deref(g, e) == IF e.ref = "ErrAPIError" THEN g ELSE e

\* ---------------------------------------------------- pkg/calendar/client.go
\* The HTTP statuses a remote call is made to fail with; 418 stands for a
\* status the switch statements do not name.
Statuses == {400, 401, 403, 404, 409, 429, 500, 502, 503, 504, 418}

\* What one invocation of the wrapped call can return.
FnOutcomes == {Nil, OtherError} \cup {GoogleAPIError(s) : s \in Statuses}

\* A retry decision that leaves out the gateway timeout.
isRetryable_No504(err) ==
  IF err.ref = "googleapi"
  THEN err.Code \in {429} \cup {500, 502, 503}
  ELSE FALSE

isRetryable(err) ==
  IF err.ref = "googleapi"
  THEN err.Code \in {429} \cup {500, 502, 503, 504}
  ELSE FALSE

\* A classifier without the status table: every error is the generic one.
handleAPIError_Generic(g, err, operation) ==
  IF err = Nil THEN [err |-> Nil, g |-> g]
  ELSE [err |-> ErrAPIErrorRef,
        g |-> WithWrappedError(WithDetails(g, Sprintf("%s failed", <<operation>>, <<>>)), err)]

\* handleAPIError(err, operation) with g the object behind types.ErrAPIError:
\* the error returned and the object afterwards.
handleAPIError(g, err, operation) ==
  IF err = Nil THEN [err |-> Nil, g |-> g]
  ELSE IF err.ref # "googleapi"
  THEN [err |-> ErrAPIErrorRef,
        g |-> WithWrappedError(WithDetails(g, Sprintf("%s failed", <<operation>>, <<>>)), err)]
  ELSE CASE err.Code = 400 ->
              [err |-> WithWrappedError(ErrInvalidInput("request", Str(err.Message)), err),
               g |-> g]
         [] err.Code = 401 ->
              [err |-> WithSuggestedAction(
                         WithWrappedError(ErrAuthFailed("invalid or expired credentials"), err),
                         Str("Run 'gcal-cli auth login' to re-authenticate")),
               g |-> g]
         [] err.Code = 403 ->
              [err |-> WithSuggestedAction(
                         WithWrappedError(
                           WithDetails(NewAppError(ErrCodePermissionDenied,
                                                   Str("insufficient permissions"), TRUE),
                                       Str(err.Message)),
                           err),
                         Str("Check calendar sharing settings")),
               g |-> g]
         [] err.Code = 404 ->
              [err |-> WithWrappedError(WithDetails(ErrNotFound("event", ""), Str(err.Message)),
                                        err),
               g |-> g]
         [] err.Code = 409 ->
              [err |-> WithWrappedError(
                         WithDetails(NewAppError(ErrCodeInvalidInput,
                                                 Str("conflict with existing event"), TRUE),
                                     Str(err.Message)),
                         err),
               g |-> g]
         [] err.Code = 429 ->
              [err |-> WithWrappedError(ErrRateLimit, err), g |-> g]
         [] err.Code \in {500, 502, 503, 504} ->
              [err |-> WithSuggestedAction(
                         WithWrappedError(
                           WithDetails(NewAppError(ErrCodeAPIError,
                                                   Str("Google Calendar service error"), TRUE),
                                       Str(err.Message)),
                           err),
                         Str("Try again in a few moments")),
               g |-> g]
         [] OTHER ->
              [err |-> ErrAPIErrorRef,
               g |-> WithWrappedError(
                       WithDetails(g, Sprintf("API error %d: %s", <<err.Message>>, <<err.Code>>)),
                       err)]

\* The tail of withRetry (client.go:59-63): the object behind
\* types.ErrAPIError after the final error has been wrapped.
wrapFinalError(g, operation, maxRetries, lastError) ==
  WithWrappedError(
    WithDetails(g, Sprintf("%s failed after %d attempts", <<operation>>, <<maxRetries + 1>>)),
    lastError)

\* A delay that grows by RetryDelay from one wait to the next.
backoffDelay_Linear(retryDelay, k) == retryDelay * k

\* delay := c.RetryDelay * time.Duration(1<<uint(attempt-1)), in seconds.
backoffDelay(retryDelay, k) == retryDelay * (2 ^ (k - 1))

\* -------------------------------------------------- event parameter checking
\* The characters of the e-mail addresses the model passes as attendees.
EmailChars ==
  [e \in {"a@b.co", "c@d.co", "a@bc", "ab", "abc", "@b.co", "ab@", "a@@b.c"} |->
     CASE e = "a@b.co" -> <<"a", "@", "b", ".", "c", "o">>
       [] e = "c@d.co" -> <<"c", "@", "d", ".", "c", "o">>
       [] e = "a@bc" -> <<"a", "@", "b", "c">>
       [] e = "ab" -> <<"a", "b">>
       [] e = "abc" -> <<"a", "b", "c">>
       [] e = "@b.co" -> <<"@", "b", ".", "c", "o">>
       [] e = "ab@" -> <<"a", "b", "@">>
       [] e = "a@@b.c" -> <<"a", "@", "@", "b", ".", "c">>]

isValidEmail(email) ==
  LET cs == EmailChars[email]
      ats == {i \in 1..Len(cs) : cs[i] = "@"}
      atIndex == IF ats = {} THEN -1 ELSE (CHOOSE i \in ats : TRUE) - 1
      domain == SubSeq(cs, atIndex + 2, Len(cs))
  IN  IF Len(cs) < 3 THEN FALSE
      ELSE IF Cardinality(ats) > 1 THEN FALSE
      ELSE IF atIndex = -1 \/ atIndex = 0 \/ atIndex = Len(cs) - 1 THEN FALSE
      ELSE IF Len(domain) < 3 THEN FALSE
      ELSE \E i \in 1..Len(domain) : domain[i] = "."

\* Times are whole numbers; 0 is the zero time.Time.
IsZero(t) == t = 0

\* A parameter check that does not look at the attendees.
validateCreateParams_NoAttendees(params) ==
  IF params.Summary = "" THEN ErrMissingRequired("title")
  ELSE IF IsZero(params.Start) THEN ErrMissingRequired("start")
  ELSE IF IsZero(params.End) THEN ErrMissingRequired("end")
  ELSE IF ~(params.Start < params.End)
  THEN WithSuggestedAction(
         WithDetails(NewAppError(ErrCodeInvalidTimeRange,
                                 Str("start time must be before end time"), TRUE),
                     Sprintf("start: %s, end: %s", <<>>, <<params.Start, params.End>>)),
         Str("Adjust the start and end times"))
  ELSE Nil

validateCreateParams(params) ==
  IF params.Summary = "" THEN ErrMissingRequired("title")
  ELSE IF IsZero(params.Start) THEN ErrMissingRequired("start")
  ELSE IF IsZero(params.End) THEN ErrMissingRequired("end")
  ELSE IF ~(params.Start < params.End)
  THEN WithSuggestedAction(
         WithDetails(NewAppError(ErrCodeInvalidTimeRange,
                                 Str("start time must be before end time"), TRUE),
                     Sprintf("start: %s, end: %s", <<>>, <<params.Start, params.End>>)),
         Str("Adjust the start and end times"))
  ELSE IF \E i \in 1..Len(params.Attendees) : ~isValidEmail(params.Attendees[i])
  THEN LET i == CHOOSE j \in 1..Len(params.Attendees) :
                  /\ ~isValidEmail(params.Attendees[j])
                  /\ \A k \in 1..(j - 1) : isValidEmail(params.Attendees[k])
       IN  ErrInvalidInput("attendees",
                           Sprintf("invalid email address: %s", <<params.Attendees[i]>>, <<>>))
  ELSE Nil

validateListParams(params) ==
  IF IsZero(params.From) THEN ErrMissingRequired("from")
  ELSE IF IsZero(params.To) THEN ErrMissingRequired("to")
  ELSE IF ~(params.From < params.To)
  THEN WithSuggestedAction(
         WithDetails(NewAppError(ErrCodeInvalidTimeRange,
                                 Str("from date must be before to date"), TRUE),
                     Sprintf("from: %s, to: %s", <<>>, <<params.From, params.To>>)),
         Str("Adjust the date range"))
  ELSE IF params.MaxResults < 0
  THEN ErrInvalidInput("max-results", Str("must be a positive number"))
  ELSE IF params.OrderBy # "" /\ params.OrderBy # "startTime" /\ params.OrderBy # "updated"
  THEN ErrInvalidInput("order-by", Str("must be 'startTime' or 'updated'"))
  ELSE Nil

\* ============================================================ program state
VARIABLES
  c,            \* the Client: [MaxRetries, RetryDelay]
  ctxDone,      \* the caller's context has been cancelled
  ErrAPIError,  \* the object behind the package variable types.ErrAPIError
  req,          \* the single-event call in progress: [api, eventID, params]
  pc,           \* where that call stands
  operation,    \* withRetry's operation argument
  attempt,      \* withRetry's loop variable
  lastErr,      \* withRetry's lastErr
  retErr,       \* what withRetry returned
  result,       \* the error the single-event call returned
  hist,         \* what the current withRetry call has done so far
  b,            \* the batch call in progress: [kind, items, ContinueOnError, MaxConcurrent]
  bpc,          \* where the batch call stands: "entry", "wait", "returned"
  semCap,       \* capacity of the semaphore channel
  sem,          \* permits taken (values in the semaphore channel)
  mu,           \* the goroutine holding the mutex, 0 if none
  tpc,          \* where each goroutine stands
  terr,         \* each goroutine's err, as its operation returned it
  snap,         \* the fields of that error at the moment the operation returned
  results,      \* the results slice
  order,        \* the goroutines in the order in which they stored their result
  batchErr,     \* the error the batch call returned
  m,            \* the multi-calendar call in progress: [kind, calendarIDs]
  mpc,          \* where the multi-calendar call stands: "entry", "wait", "returned"
  gpc,          \* where each per-calendar goroutine stands
  gout,         \* what each goroutine's remote call returned
  mlock,        \* the goroutine holding the multi-calendar call's mutex, 0 if none
  mres,         \* result (ListEventsMultiCalendar) or results (CreateEventMultiCalendar)
  errorsChan,   \* the values in the buffered channel errorsChan
  mret,         \* what the multi-calendar call returned: [result, err]
  fb,           \* the arguments of the free/busy calls: [calendarID, calendarIDs, start, end, slotDuration]
  remote,       \* the free/busy data the remote holds: [Calendars, err]
  fpc,          \* the free/busy call the caller makes next
  fbOut,        \* what each free/busy call made so far returned
  slotLoop,     \* the free-slot loop in progress: [current, freeSlots, busy]
  call,         \* a call of a function without remote state of its own: [fn, arguments]
  ret,          \* what that call returned
  attendees,    \* the attendees of the remote event ManageAttendees works on
  callers       \* the ManageAttendees calls running side by side: [pc, operation, emails, sent, err]

opVars == <<req, pc, operation, attempt, lastErr, retErr, result, hist>>

sharedVars == <<c, ctxDone, ErrAPIError>>

batchVars == <<b, bpc, semCap, sem, mu, tpc, terr, snap, results, order, batchErr>>

multiVars == <<m, mpc, gpc, gout, mlock, mres, errorsChan, mret>>

fbVars == <<fb, remote, fpc, fbOut, slotLoop>>

callVars == <<call, ret, attendees, callers>>

vars ==
  <<c, ctxDone, ErrAPIError, req, pc, operation, attempt, lastErr, retErr, result, hist,
    b, bpc, semCap, sem, mu, tpc, terr, snap, results, order, batchErr,
    m, mpc, gpc, gout, mlock, mres, errorsChan, mret, fb, remote, fpc, fbOut, slotLoop,
    call, ret, attendees, callers>>

\* hist.calls       invocations of the wrapped call
\* hist.waits       backoff waits that ran to their end
\* hist.retryable   invocations that failed with a retryable error
\* hist.firstFatal  position of the first non-retryable failure, 0 if none
\* hist.lastCall    what the latest invocation returned
\* hist.exit        how withRetry returned: "nil", "cancelled", "wrapped"
\* hist.cancelledAt calls made when the context was cancelled during a
\*                  backoff wait, -1 if that has not happened
\* hist.delays      the delays of the backoff waits that ran to their end
HistInit ==
  [calls |-> 0, waits |-> 0, retryable |-> 0, firstFatal |-> 0, lastCall |-> Nil,
   exit |-> "running", cancelledAt |-> -1, delays |-> <<>>]

EventIDs == {"", "evt1"}

CreateEventParamsSet ==
  [Summary : {"", "Standup"}, Start : 0..2, End : 0..2,
   Attendees : {<<>>, <<"a@b.co">>, <<"a@b.co", "a@bc">>}]

ListEventsParamsSet ==
  [From : 0..2, To : 0..2, MaxResults : {-1, 0}, OrderBy : {"", "updated", "created"}]

NoParams == [none |-> TRUE]

Requests ==
  [api : {"CreateEvent"}, eventID : {""}, params : CreateEventParamsSet]
    \cup [api : {"ListEvents"}, eventID : {""}, params : ListEventsParamsSet]
    \cup [api : {"GetEvent", "UpdateEvent", "DeleteEvent"}, eventID : EventIDs,
          params : {NoParams}]

Clients == [MaxRetries : (-1)..MaxRetriesBound, RetryDelay : 1..MaxRetryDelay]

\* NewClient's settings.
NewClient == [MaxRetries |-> 3, RetryDelay |-> 1]

\* The operation string each API function passes to withRetry first.
FirstOperation(api) ==
  CASE api = "CreateEvent" -> "create event"
    [] api = "ListEvents" -> "list events"
    [] api = "GetEvent" -> "get event"
    [] api = "UpdateEvent" -> "get event"
    [] api = "DeleteEvent" -> "delete event"

\* The parameter check at the head of each API function.
validateRequest(r) ==
  CASE r.api = "CreateEvent" -> validateCreateParams(r.params)
    [] r.api = "ListEvents" -> validateListParams(r.params)
    [] OTHER -> IF r.eventID = "" THEN ErrMissingRequired("event-id") ELSE Nil

InitOp ==
  /\ req \in Requests
  /\ pc = "entry"
  /\ operation = ""
  /\ attempt = 0
  /\ lastErr = Nil
  /\ retErr = Nil
  /\ result = Nil
  /\ hist = HistInit

InitShared ==
  /\ c \in Clients
  /\ ctxDone = FALSE
  /\ ErrAPIError = ErrAPIErrorInit

\* The caller cancels the context.
Cancel ==
  /\ ~ctxDone
  /\ pc # "returned"
  /\ ctxDone' = TRUE
  /\ hist' = IF pc = "backoff" THEN [hist EXCEPT !.cancelledAt = hist.calls] ELSE hist
  /\ UNCHANGED <<c, ErrAPIError, req, pc, operation, attempt, lastErr, retErr, result>>
  /\ UNCHANGED <<batchVars, multiVars, fbVars, callVars>>

\* The head of an API function: the parameter check, then the call of
\* withRetry (or an early return of the validation error).
ApiEnter ==
  /\ pc = "entry"
  /\ LET verr == validateRequest(req)
     IN  IF verr # Nil
         THEN /\ result' = verr
              /\ pc' = "returned"
              /\ UNCHANGED operation
         ELSE /\ operation' = FirstOperation(req.api)
              /\ pc' = "loop"
              /\ UNCHANGED result
  /\ attempt' = 0
  /\ lastErr' = Nil
  /\ hist' = HistInit
  /\ UNCHANGED <<c, ctxDone, ErrAPIError, req, retErr>>
  /\ UNCHANGED <<batchVars, multiVars, fbVars, callVars>>

\* A loop bounded by attempt < c.MaxRetries: one attempt fewer.
withRetryLoop_OneFewer ==
  /\ pc = "loop"
  /\ pc' = IF attempt < c.MaxRetries
           THEN (IF attempt > 0 THEN "backoff" ELSE "call")
           ELSE "wrap"
  /\ UNCHANGED <<c, ctxDone, ErrAPIError, req, operation, attempt, lastErr, retErr, result, hist>>
  /\ UNCHANGED <<batchVars, multiVars, fbVars, callVars>>

\* for attempt := 0; attempt <= c.MaxRetries; attempt++ { if attempt > 0 ...
withRetryLoop ==
  /\ pc = "loop"
  /\ pc' = IF attempt <= c.MaxRetries
           THEN (IF attempt > 0 THEN "backoff" ELSE "call")
           ELSE "wrap"
  /\ UNCHANGED <<c, ctxDone, ErrAPIError, req, operation, attempt, lastErr, retErr, result, hist>>
  /\ UNCHANGED <<batchVars, multiVars, fbVars, callVars>>

\* A wait that sleeps for the delay without watching the context.
withRetryBackoffElapsed_Sleep ==
  /\ pc = "backoff"
  /\ pc' = "call"
  /\ hist' = [hist EXCEPT !.waits = @ + 1,
                          !.delays = Append(@, backoffDelay(c.RetryDelay, attempt))]
  /\ UNCHANGED <<c, ctxDone, ErrAPIError, req, operation, attempt, lastErr, retErr, result>>
  /\ UNCHANGED <<batchVars, multiVars, fbVars, callVars>>

\* case <-time.After(delay): the wait ran to its end.  The delay is
\* positive, so a context that is already done wins the select.
withRetryBackoffElapsed ==
  /\ pc = "backoff"
  /\ ~ctxDone
  /\ backoffDelay(c.RetryDelay, attempt) > 0
  /\ pc' = "call"
  /\ hist' = [hist EXCEPT !.waits = @ + 1,
                          !.delays = Append(@, backoffDelay(c.RetryDelay, attempt))]
  /\ UNCHANGED <<c, ctxDone, ErrAPIError, req, operation, attempt, lastErr, retErr, result>>
  /\ UNCHANGED <<batchVars, multiVars, fbVars, callVars>>

\* case <-ctx.Done(): return types.ErrNetworkError("operation cancelled")
withRetryCancelled ==
  /\ pc = "backoff"
  /\ ctxDone
  /\ retErr' = ErrNetworkError("operation cancelled")
  /\ pc' = "handle"
  /\ hist' = [hist EXCEPT !.exit = "cancelled"]
  /\ UNCHANGED <<c, ctxDone, ErrAPIError, req, operation, attempt, lastErr, result>>
  /\ UNCHANGED <<batchVars, multiVars, fbVars, callVars>>

\* An invocation after which every failure is retried, retryable or not.
withRetryInvoke_NoBreak ==
  /\ pc = "call"
  /\ \E err \in FnOutcomes :
       /\ hist' = [hist EXCEPT !.calls = @ + 1,
                               !.lastCall = err,
                               !.retryable = IF isRetryable(err) THEN @ + 1 ELSE @,
                               !.firstFatal = IF @ = 0 /\ err # Nil /\ ~isRetryable(err)
                                              THEN hist.calls + 1 ELSE @,
                               !.exit = IF err = Nil THEN "nil" ELSE @]
       /\ IF err = Nil
          THEN /\ retErr' = Nil
               /\ pc' = "handle"
               /\ UNCHANGED <<lastErr, attempt>>
          ELSE /\ lastErr' = err
               /\ pc' = "loop"
               /\ attempt' = attempt + 1
               /\ UNCHANGED retErr
  /\ UNCHANGED <<c, ctxDone, ErrAPIError, req, operation, result>>
  /\ UNCHANGED <<batchVars, multiVars, fbVars, callVars>>

\* err := fn(); nil returns, a non-retryable error leaves the loop.
withRetryInvoke ==
  /\ pc = "call"
  /\ \E err \in FnOutcomes :
       /\ hist' = [hist EXCEPT !.calls = @ + 1,
                               !.lastCall = err,
                               !.retryable = IF isRetryable(err) THEN @ + 1 ELSE @,
                               !.firstFatal = IF @ = 0 /\ err # Nil /\ ~isRetryable(err)
                                              THEN hist.calls + 1 ELSE @,
                               !.exit = IF err = Nil THEN "nil" ELSE @]
       /\ IF err = Nil
          THEN /\ retErr' = Nil
               /\ pc' = "handle"
               /\ UNCHANGED <<lastErr, attempt>>
          ELSE /\ lastErr' = err
               /\ IF ~isRetryable(err)
                  THEN pc' = "wrap" /\ UNCHANGED attempt
                  ELSE pc' = "loop" /\ attempt' = attempt + 1
               /\ UNCHANGED retErr
  /\ UNCHANGED <<c, ctxDone, ErrAPIError, req, operation, result>>
  /\ UNCHANGED <<batchVars, multiVars, fbVars, callVars>>

\* return types.ErrAPIError.WithDetails(...).WithWrappedError(lastErr)
withRetryWrap ==
  /\ pc = "wrap"
  /\ ErrAPIError' = wrapFinalError(ErrAPIError, operation, c.MaxRetries, lastErr)
  /\ retErr' = ErrAPIErrorRef
  /\ pc' = "handle"
  /\ hist' = [hist EXCEPT !.exit = "wrapped"]
  /\ UNCHANGED <<c, ctxDone, req, operation, attempt, lastErr, result>>
  /\ UNCHANGED <<batchVars, multiVars, fbVars, callVars>>

\* The same return statement of withRetry (client.go:59-63) reached by
\* another goroutine, whose withRetry call for "delete event" on this
\* Client has used up its attempts, while this call is in withRetry or has
\* just returned from it.
withRetryWrapConcurrent ==
  /\ pc \in {"loop", "backoff", "call", "wrap", "handle"}
  /\ ErrAPIError' = wrapFinalError(ErrAPIError, "delete event", c.MaxRetries,
                                   GoogleAPIError(502))
  /\ UNCHANGED <<c, ctxDone>>
  /\ UNCHANGED <<opVars, batchVars, multiVars, fbVars, callVars>>

\* The tail of an API function: if err != nil { return handleAPIError(err,
\* operation) }.  UpdateEvent goes on from its GetEvent to the update call.
ApiReturn ==
  /\ pc = "handle"
  /\ LET h == handleAPIError(ErrAPIError, retErr, operation)
     IN  /\ ErrAPIError' = h.g
         /\ IF req.api = "UpdateEvent" /\ operation = "get event" /\ retErr = Nil
            THEN /\ operation' = "update event"
                 /\ pc' = "loop"
                 /\ attempt' = 0
                 /\ lastErr' = Nil
                 /\ hist' = HistInit
                 /\ UNCHANGED result
            ELSE /\ result' = h.err
                 /\ pc' = "returned"
                 /\ UNCHANGED <<operation, attempt, lastErr, hist>>
  /\ UNCHANGED <<c, ctxDone, req, retErr>>
  /\ UNCHANGED <<batchVars, multiVars, fbVars, callVars>>

\* ========================================================= batch operations
\* Names for the items of a batch (event summaries and event IDs).
ItemName(i) == <<"item1", "item2", "item3", "item4", "item5">>[i]

\* The effective limit the documentation states: 1 to 10, default 5.
DocumentedMaxConcurrent == 10

DefaultMaxConcurrent == 5

\* One item of a batch per kind: for "create" a CreateEventParams that
\* passes validateCreateParams or one without a summary; for "delete" and
\* "update" an event ID, possibly empty.  The Updates map is ranged over in
\* an arbitrary order: the goroutine started t-th gets idx t-1 and whichever
\* key the iteration yields, and the keys are named after that order.
BatchItems(kind, i) ==
  IF kind = "create"
  THEN {[Summary |-> sm, Start |-> 1, End |-> 2, Attendees |-> <<>>] : sm \in {"", ItemName(i)}}
  ELSE {"", ItemName(i)}

RECURSIVE ItemSeqs(_, _)
ItemSeqs(kind, n) ==
  IF n = 0 THEN {<<>>}
  ELSE {Append(sq, it) : sq \in ItemSeqs(kind, n - 1), it \in BatchItems(kind, n)}

\* The keys of a map are distinct.
DistinctKeys(kind, items) ==
  kind = "update" => \A i, j \in 1..Len(items) : items[i] = items[j] => i = j

BatchCallsOf(kind) ==
  {[kind |-> kind, items |-> its, ContinueOnError |-> coe, MaxConcurrent |-> mc] :
     its \in {sq \in UNION {ItemSeqs(kind, n) : n \in 0..MaxItems} : DistinctKeys(kind, sq)},
     coe \in BOOLEAN,
     mc \in {0, 1, 2, MaxConcurrentBound}}

BatchCalls == UNION {BatchCallsOf(kind) : kind \in {"create", "update", "delete"}}

N == Len(b.items)

Tasks == 1..N

\* A slot of the results slice that has not been assigned.
NilResult == [nil |-> TRUE]

\* How a withRetry call inside a batch item ended: with nil, with the final
\* error wrapped, or cancelled in a backoff wait.
BatchFailures == {GoogleAPIError(404), GoogleAPIError(503), OtherError}

RetryRuns(done) ==
  {[exit |-> "nil", lastErr |-> Nil]}
    \cup {[exit |-> "wrapped", lastErr |-> e] : e \in BatchFailures}
    \cup (IF done THEN {[exit |-> "cancelled", lastErr |-> GoogleAPIError(503)]} ELSE {})

\* What withRetry returns for such a run, and the object behind
\* types.ErrAPIError afterwards.
withRetryResult(g, op, maxRetries, run) ==
  CASE run.exit = "nil" -> [err |-> Nil, g |-> g]
    [] run.exit = "cancelled" -> [err |-> ErrNetworkError("operation cancelled"), g |-> g]
    [] run.exit = "wrapped" ->
         [err |-> ErrAPIErrorRef, g |-> wrapFinalError(g, op, maxRetries, run.lastErr)]

\* An API function from its parameter check to its return, given how its
\* withRetry call runs.
apiCall(g, r, op, maxRetries, run) ==
  LET verr == validateRequest(r)
      w == withRetryResult(g, op, maxRetries, run)
  IN  IF verr # Nil THEN [err |-> verr, g |-> g]
      ELSE handleAPIError(w.g, w.err, op)

\* UpdateEvent: the event ID check, GetEvent, then the update call.
updateCall(g, id, maxRetries, run1, run2) ==
  LET got == apiCall(g, [api |-> "GetEvent", eventID |-> id, params |-> NoParams],
                     "get event", maxRetries, run1)
      w == withRetryResult(got.g, "update event", maxRetries, run2)
  IN  IF id = "" THEN [err |-> ErrMissingRequired("event-id"), g |-> g]
      ELSE IF got.err # Nil THEN got
      ELSE handleAPIError(w.g, w.err, "update event")

\* What the operation of item i can return.
itemCalls(g, kind, item, maxRetries, done) ==
  CASE kind = "create" ->
         {apiCall(g, [api |-> "CreateEvent", eventID |-> "", params |-> item],
                  "create event", maxRetries, run) : run \in RetryRuns(done)}
    [] kind = "delete" ->
         {apiCall(g, [api |-> "DeleteEvent", eventID |-> item, params |-> NoParams],
                  "delete event", maxRetries, run) : run \in RetryRuns(done)}
    [] kind = "update" ->
         {updateCall(g, item, maxRetries, run1, run2) :
            run1 \in RetryRuns(done), run2 \in RetryRuns(done)}

\* The event a successful create or update returns (convertEvent of the
\* remote answer).
EventOf(kind, item) ==
  IF kind = "create" THEN [ID |-> "new", Summary |-> item.Summary]
  ELSE [ID |-> item, Summary |-> "existing"]

\* The BatchResult goroutine i builds (index is i - 1).
BatchResult(g, kind, i, item, err) ==
  LET isApp == err.ref \in {"new", "ErrAPIError"}
      what == CASE kind = "create" ->
                     Sprintf("failed to create event at index %d", <<>>, <<i - 1>>)
                [] kind = "update" -> Sprintf("failed to update event %s", <<item>>, <<>>)
                [] kind = "delete" -> Sprintf("failed to delete event %s", <<item>>, <<>>)
  IN  IF err # Nil
      THEN [res |-> [Success |-> FALSE, Index |-> i - 1,
                     EventID |-> IF kind = "create" THEN "" ELSE item,
                     Event |-> Nil,
                     Error |-> IF isApp THEN err ELSE ErrAPIErrorRef],
            g |-> IF isApp THEN g ELSE WithWrappedError(WithDetails(g, what), err)]
      ELSE [res |-> [Success |-> TRUE, Index |-> i - 1,
                     EventID |-> IF kind = "create" THEN EventOf(kind, item).ID ELSE item,
                     Event |-> IF kind = "delete" THEN Nil ELSE EventOf(kind, item),
                     Error |-> Nil],
            g |-> g]

\* The Details of the error a batch that must not continue on error returns.
BatchFailedDetails(kind) ==
  CASE kind = "create" -> Str("batch create failed: one or more events failed to create")
    [] kind = "update" -> Str("batch update failed: one or more events failed to update")
    [] kind = "delete" -> Str("batch delete failed: one or more events failed to delete")

\* The error of an empty batch.
NoItemsError(kind) ==
  CASE kind = "create" -> ErrInvalidInput("events", Str("no events provided"))
    [] kind = "update" -> ErrInvalidInput("updates", Str("no updates provided"))
    [] kind = "delete" -> ErrInvalidInput("eventIds", Str("no event IDs provided"))

InitBatch ==
  /\ b \in BatchCalls
  /\ bpc = "entry"
  /\ semCap = 0
  /\ sem = 0
  /\ mu = 0
  /\ tpc = [i \in Tasks |-> "unborn"]
  /\ terr = [i \in Tasks |-> Nil]
  /\ snap = [i \in Tasks |-> Nil]
  /\ results = <<>>
  /\ order = <<>>
  /\ batchErr = Nil

\* The caller cancels the context while the batch runs.
BatchCancel ==
  /\ bpc = "wait"
  /\ ~ctxDone
  /\ ctxDone' = TRUE
  /\ UNCHANGED <<c, ErrAPIError>>
  /\ UNCHANGED <<opVars, multiVars, fbVars, callVars>>
  /\ UNCHANGED batchVars

\* BatchCreateEvents, BatchUpdateEvents, BatchDeleteEvents up to wg.Wait():
\* the empty batch is refused; otherwise the default limit is applied, the
\* results slice and the semaphore are made and one goroutine per item is
\* started.
BatchEnter ==
  /\ bpc = "entry"
  /\ IF N = 0
     THEN /\ batchErr' = NoItemsError(b.kind)
          /\ bpc' = "returned"
          /\ UNCHANGED <<semCap, tpc, results>>
     ELSE /\ semCap' = IF b.MaxConcurrent <= 0 THEN DefaultMaxConcurrent ELSE b.MaxConcurrent
          /\ results' = IF b.kind = "update" THEN <<>> ELSE [i \in Tasks |-> NilResult]
          /\ tpc' = [i \in Tasks |-> "acquire"]
          /\ bpc' = "wait"
          /\ UNCHANGED batchErr
  /\ UNCHANGED <<b, sem, mu, terr, snap, order>>
  /\ UNCHANGED sharedVars
  /\ UNCHANGED <<opVars, multiVars, fbVars, callVars>>

\* A goroutine that takes a permit whether or not one is left.
TaskAcquire_Unbounded(i) ==
  /\ tpc[i] = "acquire"
  /\ sem' = sem + 1
  /\ tpc' = [tpc EXCEPT ![i] = "op"]
  /\ UNCHANGED <<b, bpc, semCap, mu, terr, snap, results, order, batchErr>>
  /\ UNCHANGED sharedVars
  /\ UNCHANGED <<opVars, multiVars, fbVars, callVars>>

\* semaphore <- struct{}{}: blocks while the channel is full.
TaskAcquire(i) ==
  /\ tpc[i] = "acquire"
  /\ sem < semCap
  /\ sem' = sem + 1
  /\ tpc' = [tpc EXCEPT ![i] = "op"]
  /\ UNCHANGED <<b, bpc, semCap, mu, terr, snap, results, order, batchErr>>
  /\ UNCHANGED sharedVars
  /\ UNCHANGED <<opVars, multiVars, fbVars, callVars>>

\* c.CreateEvent(ctx, ep), c.UpdateEvent(ctx, id, up) or c.DeleteEvent(ctx,
\* id) runs and returns.  The call is one step: its assignments to the
\* object behind types.ErrAPIError are not interleaved with those of the
\* other goroutines.
TaskOp(i) ==
  /\ tpc[i] = "op"
  /\ \E r \in itemCalls(ErrAPIError, b.kind, b.items[i], c.MaxRetries, ctxDone) :
       /\ terr' = [terr EXCEPT ![i] = r.err]
       /\ snap' = [snap EXCEPT ![i] = Deref(r.g, r.err)]
       /\ ErrAPIError' = r.g
  /\ tpc' = [tpc EXCEPT ![i] = "lock"]
  /\ UNCHANGED <<b, bpc, semCap, sem, mu, results, order, batchErr>>
  /\ UNCHANGED <<c, ctxDone>>
  /\ UNCHANGED <<opVars, multiVars, fbVars, callVars>>

\* A goroutine that appends its result whatever the kind of batch.
TaskStore_Append(i) ==
  /\ tpc[i] = "lock"
  /\ mu = 0
  /\ mu' = i
  /\ LET r == BatchResult(ErrAPIError, b.kind, i, b.items[i], terr[i])
     IN  /\ results' = Append(SelectSeq(results, LAMBDA x : x # NilResult), r.res)
         /\ ErrAPIError' = r.g
  /\ order' = Append(order, i)
  /\ tpc' = [tpc EXCEPT ![i] = "unlock"]
  /\ UNCHANGED <<b, bpc, semCap, sem, terr, snap, batchErr>>
  /\ UNCHANGED <<c, ctxDone>>
  /\ UNCHANGED <<opVars, multiVars, fbVars, callVars>>

\* mu.Lock() and the assignment of the result: results[index] = ... in
\* create and delete, results = append(results, ...) in update.
TaskStore(i) ==
  /\ tpc[i] = "lock"
  /\ mu = 0
  /\ mu' = i
  /\ LET r == BatchResult(ErrAPIError, b.kind, i, b.items[i], terr[i])
     IN  /\ results' = IF b.kind = "update"
                       THEN Append(results, r.res)
                       ELSE [results EXCEPT ![i] = r.res]
         /\ ErrAPIError' = r.g
  /\ order' = Append(order, i)
  /\ tpc' = [tpc EXCEPT ![i] = "unlock"]
  /\ UNCHANGED <<b, bpc, semCap, sem, terr, snap, batchErr>>
  /\ UNCHANGED <<c, ctxDone>>
  /\ UNCHANGED <<opVars, multiVars, fbVars, callVars>>

\* mu.Unlock()
TaskUnlock(i) ==
  /\ tpc[i] = "unlock"
  /\ mu = i
  /\ mu' = 0
  /\ tpc' = [tpc EXCEPT ![i] = "release"]
  /\ UNCHANGED <<b, bpc, semCap, sem, terr, snap, results, order, batchErr>>
  /\ UNCHANGED sharedVars
  /\ UNCHANGED <<opVars, multiVars, fbVars, callVars>>

\* Deferred calls that leave the permit in the semaphore.
TaskRelease_KeepPermit(i) ==
  /\ tpc[i] = "release"
  /\ tpc' = [tpc EXCEPT ![i] = "done"]
  /\ UNCHANGED <<b, bpc, semCap, sem, mu, terr, snap, results, order, batchErr>>
  /\ UNCHANGED sharedVars
  /\ UNCHANGED <<opVars, multiVars, fbVars, callVars>>

\* The deferred calls: <-semaphore, then wg.Done().
TaskRelease(i) ==
  /\ tpc[i] = "release"
  /\ sem' = sem - 1
  /\ tpc' = [tpc EXCEPT ![i] = "done"]
  /\ UNCHANGED <<b, bpc, semCap, mu, terr, snap, results, order, batchErr>>
  /\ UNCHANGED sharedVars
  /\ UNCHANGED <<opVars, multiVars, fbVars, callVars>>

\* A return that stops waiting for the goroutines once the context is done.
BatchReturn_OnCancel ==
  /\ bpc = "wait"
  /\ ctxDone \/ \A i \in Tasks : tpc[i] = "done"
  /\ IF ~b.ContinueOnError /\ \E k \in 1..Len(results) : results[k] # NilResult /\ ~results[k].Success
     THEN /\ batchErr' = ErrAPIErrorRef
          /\ ErrAPIError' = WithDetails(ErrAPIError, BatchFailedDetails(b.kind))
     ELSE /\ batchErr' = Nil
          /\ UNCHANGED ErrAPIError
  /\ bpc' = "returned"
  /\ UNCHANGED <<b, semCap, sem, mu, tpc, terr, snap, results, order>>
  /\ UNCHANGED <<c, ctxDone>>
  /\ UNCHANGED <<opVars, multiVars, fbVars, callVars>>

\* A return that reports an error whenever an item failed.
BatchReturn_AlwaysFail ==
  /\ bpc = "wait"
  /\ \A i \in Tasks : tpc[i] = "done"
  /\ IF \E k \in 1..Len(results) : ~results[k].Success
     THEN /\ batchErr' = ErrAPIErrorRef
          /\ ErrAPIError' = WithDetails(ErrAPIError, BatchFailedDetails(b.kind))
     ELSE /\ batchErr' = Nil
          /\ UNCHANGED ErrAPIError
  /\ bpc' = "returned"
  /\ UNCHANGED <<b, semCap, sem, mu, tpc, terr, snap, results, order>>
  /\ UNCHANGED <<c, ctxDone>>
  /\ UNCHANGED <<opVars, multiVars, fbVars, callVars>>

\* wg.Wait() has returned; if !params.ContinueOnError, the first failed
\* result makes the call return results with types.ErrAPIError.WithDetails.
BatchReturn ==
  /\ bpc = "wait"
  /\ \A i \in Tasks : tpc[i] = "done"
  /\ IF ~b.ContinueOnError /\ \E k \in 1..Len(results) : ~results[k].Success
     THEN /\ batchErr' = ErrAPIErrorRef
          /\ ErrAPIError' = WithDetails(ErrAPIError, BatchFailedDetails(b.kind))
     ELSE /\ batchErr' = Nil
          /\ UNCHANGED ErrAPIError
  /\ bpc' = "returned"
  /\ UNCHANGED <<b, semCap, sem, mu, tpc, terr, snap, results, order>>
  /\ UNCHANGED <<c, ctxDone>>
  /\ UNCHANGED <<opVars, multiVars, fbVars, callVars>>

\* ================================================ multi-calendar operations
\* The calendar IDs a caller names.
CalendarIDs == {"cal1", "cal2"}

\* calendarIDs arguments: every list of at most MaxCalendars IDs, the empty
\* list and lists naming a calendar twice included.
RECURSIVE CalendarIDSeqs(_)
CalendarIDSeqs(n) ==
  IF n = 0 THEN {<<>>}
  ELSE CalendarIDSeqs(n - 1) \cup
       {Append(ids, id) : ids \in {s \in CalendarIDSeqs(n - 1) : Len(s) = n - 1},
                          id \in CalendarIDs}

\* Timestamp strings.  Go compares strings byte by byte; the strings compared
\* here have fixed-width fields, so a string is the tuple of its fields:
\*   ""                             <<>>
\*   "YYYY-MM-DD"                   <<day>>
\*   "YYYY-MM-DDTHH:00:00<offset>"  <<day, hour, suffix>>
\* with suffix 0 for "+01:00", 1 for "-01:00" and 2 for "Z", which is the
\* byte order of '+', '-' and 'Z'.
\*
\* x < y for two such strings (a proper prefix is smaller).
StringLess(x, y) ==
  \E k \in 1..Len(y) :
    /\ \A j \in 1..(k - 1) : j <= Len(x) /\ x[j] = y[j]
    /\ k > Len(x) \/ (k <= Len(x) /\ x[k] < y[k])

\* The instant, in hours, that a timestamp string names: its wall clock
\* less the UTC offset its suffix writes (an all-day date names the start of
\* its day).
Instant(str) ==
  IF Len(str) = 3 THEN str[1] * 24 + str[2] - <<1, -1, 0>>[str[3] + 1] ELSE str[1] * 24

\* Events the remote holds, in the order of their start instants:
\* an all-day event, 11:00+01:00 (10:00Z) and 10:00-01:00 (11:00Z).
RemoteEvents ==
  << [Id |-> "d", Start |-> [DateTime |-> <<>>, Date |-> <<0>>]],
     [Id |-> "b", Start |-> [DateTime |-> <<0, 11, 0>>, Date |-> <<>>]],
     [Id |-> "a", Start |-> [DateTime |-> <<0, 10, 1>>, Date |-> <<>>]] >>

\* The events of RemoteEvents at the positions in chosen, in that order (the
\* list call asks for OrderBy("startTime")).
RECURSIVE EventsAt(_, _)
EventsAt(chosen, k) ==
  IF k > Len(RemoteEvents) THEN <<>>
  ELSE (IF k \in chosen THEN <<RemoteEvents[k]>> ELSE <<>>) \o EventsAt(chosen, k + 1)

\* What Events.List(...).Do() or Events.Insert(...).Do() can return: events
\* and a nil error, or an error; again tells whether the same call made
\* once more would get the same answer or would succeed.
RemoteOutcomes(kind) ==
  {[err |-> e, Items |-> <<>>, again |-> a] :
     e \in {GoogleAPIError(404), GoogleAPIError(503)}, a \in {"same", "success"}} \cup
  IF kind = "list"
  THEN {[err |-> Nil, Items |-> EventsAt(chosen, 1), again |-> "same"] :
          chosen \in {s \in SUBSET (1..Len(RemoteEvents)) : Cardinality(s) <= MaxEvents}}
  ELSE {[err |-> Nil, Items |-> <<RemoteEvents[2]>>, again |-> "same"]}

\* convertEvent: the fields of a remote event that the model keeps.
convertEvent(event) == [ID |-> event.Id, Start |-> event.Start]

\* fmt.Errorf(format, calendarID, err) with %w.
Errorf(format, calendarID, err) ==
  [ref |-> "errorf", fmt |-> format, s |-> calendarID, wrapped |-> err]

\* The key sortMultiCalendarEvents compares: Start.Date if set, else
\* Start.DateTime.
startKey(e) ==
  IF e.Event.Start.Date # <<>> THEN e.Event.Start.Date ELSE e.Event.Start.DateTime

\* sortMultiCalendarEvents from the loop position (i, j) on.
RECURSIVE sortFrom(_, _, _)
sortFrom(events, i, j) ==
  IF i > Len(events) THEN events
  ELSE IF j > Len(events) THEN sortFrom(events, i + 1, i + 2)
  ELSE IF StringLess(startKey(events[j]), startKey(events[i]))
       THEN sortFrom([events EXCEPT ![i] = events[j], ![j] = events[i]], i, j + 1)
       ELSE sortFrom(events, i, j + 1)

sortMultiCalendarEvents(events) == sortFrom(events, 1, 2)

MultiCalls == [kind : {"list", "create"}, calendarIDs : CalendarIDSeqs(MaxCalendars)]

NC == Len(m.calendarIDs)

Goroutines == 1..NC

\* map[key] = value (a map is a function on the keys it holds).
MapSet(map, key, value) ==
  [k \in (DOMAIN map) \cup {key} |-> IF k = key THEN value ELSE map[k]]

\* ListEventsMultiCalendar or CreateEventMultiCalendar up to wg.Wait(): an
\* empty ID list is refused; otherwise the result value and the channel are
\* made and one goroutine per calendar ID is started.
MultiEnter ==
  /\ mpc = "entry"
  /\ IF NC = 0
     THEN /\ mret' = [result |-> NilResult,
                      err |-> ErrInvalidInput("calendarIds",
                                              Str("at least one calendar ID required"))]
          /\ mpc' = "returned"
          /\ UNCHANGED <<gpc, mres>>
     ELSE /\ mres' = IF m.kind = "list"
                     THEN [Events |-> <<>>, TotalCount |-> 0, ByCalendar |-> <<>>]
                     ELSE <<>>
          /\ gpc' = [i \in Goroutines |-> "call"]
          /\ mpc' = "wait"
          /\ UNCHANGED mret
  /\ UNCHANGED <<m, gout, mlock, errorsChan>>
  /\ UNCHANGED <<sharedVars, opVars, batchVars, fbVars, callVars>>

\* A goroutine's remote call returns; on an error the goroutine sends it to
\* errorsChan (whose buffer holds one value per goroutine) and ends.
CalendarCall(i) ==
  /\ gpc[i] = "call"
  /\ \E out \in RemoteOutcomes(m.kind) :
       /\ gout' = [gout EXCEPT ![i] = out]
       /\ IF out.err # Nil
          THEN /\ errorsChan' = Append(errorsChan,
                                       Errorf("calendar %s: %w", m.calendarIDs[i], out.err))
               /\ gpc' = [gpc EXCEPT ![i] = "done"]
          ELSE /\ gpc' = [gpc EXCEPT ![i] = "lock"]
               /\ UNCHANGED errorsChan
  /\ UNCHANGED <<m, mpc, mlock, mres, mret>>
  /\ UNCHANGED <<sharedVars, opVars, batchVars, fbVars, callVars>>

\* The events of a list response as MultiCalendarEvent values.
RECURSIVE MultiCalendarEvents(_, _)
MultiCalendarEvents(calendarID, items) ==
  IF items = <<>> THEN <<>>
  ELSE <<[CalendarID |-> calendarID, Event |-> convertEvent(Head(items))]>>
       \o MultiCalendarEvents(calendarID, Tail(items))

\* mu.Lock() and the goroutine's writes to the shared result.
CalendarStore(i) ==
  /\ gpc[i] = "lock"
  /\ mlock = 0
  /\ mlock' = i
  /\ mres' = IF m.kind = "list"
             THEN [mres EXCEPT
                     !.Events = mres.Events \o MultiCalendarEvents(m.calendarIDs[i], gout[i].Items),
                     !.ByCalendar = MapSet(mres.ByCalendar, m.calendarIDs[i], Len(gout[i].Items))]
             ELSE MapSet(mres, m.calendarIDs[i], convertEvent(gout[i].Items[1]))
  /\ gpc' = [gpc EXCEPT ![i] = "unlock"]
  /\ UNCHANGED <<m, mpc, gout, errorsChan, mret>>
  /\ UNCHANGED <<sharedVars, opVars, batchVars, fbVars, callVars>>

\* mu.Unlock(), then the deferred wg.Done().
CalendarUnlock(i) ==
  /\ gpc[i] = "unlock"
  /\ mlock' = 0
  /\ gpc' = [gpc EXCEPT ![i] = "done"]
  /\ UNCHANGED <<m, mpc, gout, mres, errorsChan, mret>>
  /\ UNCHANGED <<sharedVars, opVars, batchVars, fbVars, callVars>>

\* The Details of the error a multi-calendar call returns.
MultiFailedDetails(kind, err) ==
  IF kind = "list" THEN Sprintf("multi-calendar query failed: %v", <<err>>, <<>>)
  ELSE Sprintf("multi-calendar create failed: %v", <<err>>, <<>>)

\* The multi-calendar call from the return of wg.Wait() on, were it to go on
\* as soon as one goroutine has ended.
MultiReturn_FirstDone ==
  /\ mpc = "wait"
  /\ \E i \in Goroutines : gpc[i] = "done"
  /\ IF Len(errorsChan) > 0
     THEN /\ ErrAPIError' = WithDetails(ErrAPIError, MultiFailedDetails(m.kind, Head(errorsChan)))
          /\ errorsChan' = Tail(errorsChan)
          /\ mret' = [result |-> NilResult, err |-> ErrAPIErrorRef]
          /\ UNCHANGED mres
     ELSE /\ mres' = IF m.kind = "list"
                     THEN [mres EXCEPT !.TotalCount = Len(mres.Events),
                                       !.Events = sortMultiCalendarEvents(mres.Events)]
                     ELSE mres
          /\ mret' = [result |-> mres', err |-> Nil]
          /\ UNCHANGED <<ErrAPIError, errorsChan>>
  /\ mpc' = "returned"
  /\ UNCHANGED <<m, gpc, gout, mlock>>
  /\ UNCHANGED <<c, ctxDone>>
  /\ UNCHANGED <<opVars, batchVars, fbVars, callVars>>

\* The multi-calendar call from the return of wg.Wait() on: every goroutine
\* has ended; the first error in the channel, if there is one, fails the
\* call; otherwise the list result is counted and sorted and returned.
MultiReturn ==
  /\ mpc = "wait"
  /\ \A i \in Goroutines : gpc[i] = "done"
  /\ IF Len(errorsChan) > 0
     THEN /\ ErrAPIError' = WithDetails(ErrAPIError, MultiFailedDetails(m.kind, Head(errorsChan)))
          /\ errorsChan' = Tail(errorsChan)
          /\ mret' = [result |-> NilResult, err |-> ErrAPIErrorRef]
          /\ UNCHANGED mres
     ELSE /\ mres' = IF m.kind = "list"
                     THEN [mres EXCEPT !.TotalCount = Len(mres.Events),
                                       !.Events = sortMultiCalendarEvents(mres.Events)]
                     ELSE mres
          /\ mret' = [result |-> mres', err |-> Nil]
          /\ UNCHANGED <<ErrAPIError, errorsChan>>
  /\ mpc' = "returned"
  /\ UNCHANGED <<m, gpc, gout, mlock>>
  /\ UNCHANGED <<c, ctxDone>>
  /\ UNCHANGED <<opVars, batchVars, fbVars, callVars>>

\* ================================================== pkg/calendar/freebusy.go
\* A time.Time is a number of ticks, TicksPerSecond to the second; the zero
\* time.Time lies before every other instant.
TicksPerSecond == 2

ZeroTime == 0 - 1

\* Timestamp strings of the free/busy calls: the empty string, a string that
\* is not RFC 3339, or an RFC 3339 string, which names a whole second.
EmptyTimeString == [kind |-> "empty"]

BadTimeString == [kind |-> "bad"]

\* t.Format(time.RFC3339): the layout has no fraction of a second.
Format(t) == [kind |-> "rfc3339", sec |-> t \div TicksPerSecond]

\* time.Parse(time.RFC3339, str): the instant, or the zero time and an error.
Parse(str) ==
  IF str.kind = "rfc3339"
  THEN [t |-> str.sec * TicksPerSecond, err |-> Nil]
  ELSE [t |-> ZeroTime, err |-> OtherError]

\* Busy lists the remote holds for a calendar: periods of whole seconds, in
\* ascending order and not overlapping, the first starting at second s or
\* later.
RECURSIVE BusyListsFrom(_)
BusyListsFrom(s) ==
  {<<>>} \cup
  UNION {{<<[Start |-> Format(TicksPerSecond * p[1]), End |-> Format(TicksPerSecond * p[2])]>>
             \o rest : rest \in BusyListsFrom(p[2])} :
         p \in {q \in (s..MaxSecond) \X (s..MaxSecond) : q[1] < q[2]}}

\* What the remote answers for one calendar: its busy list, or an errors
\* list (the calendar could not be read).
RemoteCalendars ==
  {[Busy |-> l, Errors |-> <<>>] : l \in BusyListsFrom(0)} \cup
  {[Busy |-> <<>>, Errors |-> <<[Domain |-> "global", Reason |-> "notFound"]>>]}

\* The remote: what it answers for each calendar (the free/busy API answers
\* for every calendar of a request, with an errors list for one it cannot
\* read), and whether its free/busy query fails as a whole.
Remotes == [Calendars : [CalendarIDs -> RemoteCalendars], err : {Nil, GoogleAPIError(503)}]

\* Freebusy.Query(fbRequest).Do(): the remote's answer for the calendars of
\* the request.
FreebusyQuery(rem, calendarIDs) ==
  [calID \in {calendarIDs[k] : k \in 1..Len(calendarIDs)} |-> rem.Calendars[calID]]

\* The FreeBusyInfo built from one calendar of the remote's answer.
FreeBusyInfo(calID, calInfo) ==
  [CalendarID |-> calID,
   Busy |-> calInfo.Busy,
   Errors |-> [k \in 1..Len(calInfo.Errors) |->
                 Sprintf("%s: %s", <<calInfo.Errors[k].Domain, calInfo.Errors[k].Reason>>, <<>>)]]

\* The Calendars map of a response, were the loop to skip the calendars that
\* carry errors.
responseCalendars_SkipFailed(calendars) ==
  [calID \in {id \in DOMAIN calendars : calendars[id].Errors = <<>>} |->
     FreeBusyInfo(calID, calendars[calID])]

\* The Calendars map of a response: one FreeBusyInfo for every calendar of
\* the remote's answer.
responseCalendars(calendars) ==
  [calID \in DOMAIN calendars |-> FreeBusyInfo(calID, calendars[calID])]

\* A call's return without a response.
NoResponse(g, err, queried) == [response |-> NilResult, err |-> err, g |-> g, queried |-> queried]

\* QueryFreeBusy(ctx, request) against the remote rem, g being the object
\* behind types.ErrAPIError: the response, the error, the object afterwards
\* and whether the remote was queried.
QueryFreeBusy(g, rem, request) ==
  IF request.TimeMin = EmptyTimeString \/ request.TimeMax = EmptyTimeString
  THEN NoResponse(g, ErrInvalidInput("timeMin and timeMax",
                                     Str("both required for free/busy query")), FALSE)
  ELSE IF Len(request.CalendarIDs) = 0
  THEN NoResponse(g, ErrInvalidInput("calendarIds",
                                     Str("at least one calendar ID required")), FALSE)
  ELSE IF Parse(request.TimeMin).err # Nil
  THEN NoResponse(g, ErrInvalidInput("timeMin",
                                     Sprintf("invalid RFC3339 format: %v",
                                             <<Parse(request.TimeMin).err>>, <<>>)), FALSE)
  ELSE IF Parse(request.TimeMax).err # Nil
  THEN NoResponse(g, ErrInvalidInput("timeMax",
                                     Sprintf("invalid RFC3339 format: %v",
                                             <<Parse(request.TimeMax).err>>, <<>>)), FALSE)
  ELSE IF Parse(request.TimeMax).t < Parse(request.TimeMin).t
  THEN NoResponse(g, WithDetails(NewAppError(ErrCodeInvalidTimeRange,
                                             Str("end time must be after start time"), TRUE),
                                 Sprintf("start: %s, end: %s",
                                         <<request.TimeMin, request.TimeMax>>, <<>>)), FALSE)
  ELSE IF rem.err # Nil
  THEN NoResponse(WithDetails(g, Sprintf("free/busy query failed: %v", <<rem.err>>, <<>>)),
                  ErrAPIErrorRef, TRUE)
  ELSE [response |->
          [Calendars |-> responseCalendars(FreebusyQuery(rem, request.CalendarIDs)),
           TimeMin |-> request.TimeMin,
           TimeMax |-> request.TimeMax],
        err |-> Nil, g |-> g, queried |-> TRUE]

\* The request IsBusy, FindFreeSlots and CheckConflicts build.
FreeBusyQueryRequest(calendarIDs, start, end) ==
  [TimeMin |-> Format(start), TimeMax |-> Format(end), CalendarIDs |-> calendarIDs]

\* A busy list with its timestamps parsed (parse errors are dropped).
busyPeriods(busy) ==
  [k \in 1..Len(busy) |-> [Start |-> Parse(busy[k].Start).t, End |-> Parse(busy[k].End).t]]

\* IsBusy(ctx, calendarID, start, end).
IsBusy(g, rem, calendarID, start, end) ==
  LET q == QueryFreeBusy(g, rem, FreeBusyQueryRequest(<<calendarID>>, start, end))
  IN  IF q.err # Nil
      THEN [busy |-> FALSE, err |-> q.err, g |-> q.g, queried |-> q.queried]
      ELSE IF calendarID \notin DOMAIN q.response.Calendars
      THEN [busy |-> FALSE, err |-> ErrNotFound("calendar", calendarID), g |-> q.g,
            queried |-> q.queried]
      ELSE [busy |-> Len(q.response.Calendars[calendarID].Busy) > 0, err |-> Nil, g |-> q.g,
            queried |-> q.queried]

\* The free-slot loop of FindFreeSlots and FindCommonFreeTime from the
\* position current on, were it to stop when a slot ends at end.
RECURSIVE freeSlotsFrom_StopAtEnd(_, _, _, _)
freeSlotsFrom_StopAtEnd(current, end, slotDuration, busy) ==
  IF current + slotDuration < end
  THEN (IF \E k \in 1..Len(busy) :
             current < busy[k].End /\ current + slotDuration > busy[k].Start
        THEN <<>> ELSE <<current>>)
       \o freeSlotsFrom_StopAtEnd(current + slotDuration, end, slotDuration, busy)
  ELSE <<>>

\* The free-slot loop of FindFreeSlots and FindCommonFreeTime from the
\* position current on (slotDuration > 0).
RECURSIVE freeSlotsFrom(_, _, _, _)
freeSlotsFrom(current, end, slotDuration, busy) ==
  IF current + slotDuration <= end
  THEN (IF \E k \in 1..Len(busy) :
             current < busy[k].End /\ current + slotDuration > busy[k].Start
        THEN <<>> ELSE <<current>>)
       \o freeSlotsFrom(current + slotDuration, end, slotDuration, busy)
  ELSE <<>>

\* FindFreeSlots(ctx, calendarID, start, end, slotDuration).
FindFreeSlots(g, rem, calendarID, start, end, slotDuration) ==
  LET q == QueryFreeBusy(g, rem, FreeBusyQueryRequest(<<calendarID>>, start, end))
  IN  IF q.err # Nil
      THEN [slots |-> <<>>, err |-> q.err, g |-> q.g, queried |-> q.queried]
      ELSE IF calendarID \notin DOMAIN q.response.Calendars
      THEN [slots |-> <<>>, err |-> ErrNotFound("calendar", calendarID), g |-> q.g,
            queried |-> q.queried]
      ELSE [slots |-> freeSlotsFrom(start, end, slotDuration,
                                    busyPeriods(q.response.Calendars[calendarID].Busy)),
            err |-> Nil, g |-> q.g, queried |-> q.queried]

\* The conflicts loop of CheckConflicts, were it to count a period that only
\* touches the window.
conflictsIn_Touching(busy, start, end) ==
  SelectSeq(busy, LAMBDA period :
              start <= Parse(period.End).t /\ end >= Parse(period.Start).t)

\* The conflicts loop of CheckConflicts: the periods of busy that overlap
\* start..end, in their order.
conflictsIn(busy, start, end) ==
  SelectSeq(busy, LAMBDA period :
              start < Parse(period.End).t /\ end > Parse(period.Start).t)

\* CheckConflicts(ctx, calendarID, start, end).
CheckConflicts(g, rem, calendarID, start, end) ==
  LET q == QueryFreeBusy(g, rem, FreeBusyQueryRequest(<<calendarID>>, start, end))
      conflicts == conflictsIn(q.response.Calendars[calendarID].Busy, start, end)
  IN  IF q.err # Nil
      THEN [hasConflict |-> FALSE, conflicts |-> <<>>, err |-> q.err, g |-> q.g,
            queried |-> q.queried]
      ELSE IF calendarID \notin DOMAIN q.response.Calendars
      THEN [hasConflict |-> FALSE, conflicts |-> <<>>,
            err |-> ErrNotFound("calendar", calendarID), g |-> q.g, queried |-> q.queried]
      ELSE [hasConflict |-> Len(conflicts) > 0, conflicts |-> conflicts, err |-> Nil,
            g |-> q.g, queried |-> q.queried]

\* The busy periods of a response, were only one of its calendars read.
allBusyPeriods_OneCalendar(calendars, ids) ==
  IF ids = {} THEN <<>>
  ELSE busyPeriods(calendars[CHOOSE id \in ids : TRUE].Busy)

\* The busy periods of every calendar of a response, one calendar after
\* another (the order in which Go ranges over the map does not change which
\* slots are free).
RECURSIVE allBusyPeriods(_, _)
allBusyPeriods(calendars, ids) ==
  IF ids = {} THEN <<>>
  ELSE LET calID == CHOOSE id \in ids : TRUE
       IN  busyPeriods(calendars[calID].Busy) \o allBusyPeriods(calendars, ids \ {calID})

\* FindCommonFreeTime(ctx, calendarIDs, start, end, slotDuration).
FindCommonFreeTime(g, rem, calendarIDs, start, end, slotDuration) ==
  IF Len(calendarIDs) = 0
  THEN [slots |-> <<>>,
        err |-> ErrInvalidInput("calendarIds", Str("at least one calendar ID required")),
        g |-> g, queried |-> FALSE]
  ELSE LET q == QueryFreeBusy(g, rem, FreeBusyQueryRequest(calendarIDs, start, end))
       IN  IF q.err # Nil
           THEN [slots |-> <<>>, err |-> q.err, g |-> q.g, queried |-> q.queried]
           ELSE [slots |-> freeSlotsFrom(start, end, slotDuration,
                                         allBusyPeriods(q.response.Calendars,
                                                        DOMAIN q.response.Calendars)),
                 err |-> Nil, g |-> q.g, queried |-> q.queried]

\* The requests a caller hands to QueryFreeBusy itself: the window of the
\* other calls, or one with a bound missing or malformed, or no calendar.
QueryRequests ==
  {[TimeMin |-> tmin, TimeMax |-> tmax, CalendarIDs |-> ids] :
     tmin \in {Format(fb.start), EmptyTimeString, BadTimeString},
     tmax \in {Format(fb.end), EmptyTimeString, BadTimeString},
     ids \in {fb.calendarIDs, <<>>}}

\* The caller calls IsBusy.
CallIsBusy ==
  /\ fpc = "IsBusy"
  /\ LET r == IsBusy(ErrAPIError, remote, fb.calendarID, fb.start, fb.end)
     IN  /\ fbOut' = MapSet(fbOut, "IsBusy", r)
         /\ ErrAPIError' = r.g
  /\ fpc' = "CheckConflicts"
  /\ UNCHANGED <<fb, remote, slotLoop, c, ctxDone>>
  /\ UNCHANGED <<opVars, batchVars, multiVars, callVars>>

\* The caller calls CheckConflicts with the same arguments.
CallCheckConflicts ==
  /\ fpc = "CheckConflicts"
  /\ LET r == CheckConflicts(ErrAPIError, remote, fb.calendarID, fb.start, fb.end)
     IN  /\ fbOut' = MapSet(fbOut, "CheckConflicts", r)
         /\ ErrAPIError' = r.g
  /\ fpc' = "FindFreeSlots"
  /\ UNCHANGED <<fb, remote, slotLoop, c, ctxDone>>
  /\ UNCHANGED <<opVars, batchVars, multiVars, callVars>>

\* The caller calls FindFreeSlots with the same arguments.
CallFindFreeSlots ==
  /\ fpc = "FindFreeSlots"
  /\ LET r == FindFreeSlots(ErrAPIError, remote, fb.calendarID, fb.start, fb.end,
                            fb.slotDuration)
     IN  /\ fbOut' = MapSet(fbOut, "FindFreeSlots", r)
         /\ ErrAPIError' = r.g
  /\ fpc' = "FindCommonFreeTime"
  /\ UNCHANGED <<fb, remote, slotLoop, c, ctxDone>>
  /\ UNCHANGED <<opVars, batchVars, multiVars, callVars>>

\* The caller calls FindCommonFreeTime for the list of calendars.
CallFindCommonFreeTime ==
  /\ fpc = "FindCommonFreeTime"
  /\ LET r == FindCommonFreeTime(ErrAPIError, remote, fb.calendarIDs, fb.start, fb.end,
                                 fb.slotDuration)
     IN  /\ fbOut' = MapSet(fbOut, "FindCommonFreeTime", r)
         /\ ErrAPIError' = r.g
  /\ fpc' = "QueryFreeBusy"
  /\ UNCHANGED <<fb, remote, slotLoop, c, ctxDone>>
  /\ UNCHANGED <<opVars, batchVars, multiVars, callVars>>

\* The caller calls QueryFreeBusy with a request of its own.
CallQueryFreeBusy ==
  /\ fpc = "QueryFreeBusy"
  /\ \E request \in QueryRequests :
       LET r == QueryFreeBusy(ErrAPIError, remote, request)
       IN  /\ fbOut' = MapSet(fbOut, "QueryFreeBusy",
                              [request |-> request, response |-> r.response, err |-> r.err,
                               g |-> r.g, queried |-> r.queried])
           /\ ErrAPIError' = r.g
  /\ fpc' = "done"
  /\ UNCHANGED <<fb, remote, slotLoop, c, ctxDone>>
  /\ UNCHANGED <<opVars, batchVars, multiVars, callVars>>

\* ------------------------------------------------ the free-slot loop, stepwise
\* Slots and steps away from start after which the model no longer tells the
\* positions of a loop apart: more than any loop that ends can make.
MaxLoopSteps == TicksPerSecond * MaxSecond + 2

\* FindFreeSlots or FindCommonFreeTime from its entry to the head of its
\* loop: the free/busy query and the busy periods, or an early return.
SlotsEnter ==
  /\ fpc \in {"FindFreeSlots", "FindCommonFreeTime"}
  /\ LET ids == IF fpc = "FindFreeSlots" THEN <<fb.calendarID>> ELSE fb.calendarIDs
         q == QueryFreeBusy(ErrAPIError, remote, FreeBusyQueryRequest(ids, fb.start, fb.end))
         failed(err, g) ==
           /\ fbOut' = MapSet(fbOut, fpc, [slots |-> <<>>, err |-> err])
           /\ ErrAPIError' = g
           /\ fpc' = "done"
           /\ UNCHANGED slotLoop
     IN  IF fpc = "FindCommonFreeTime" /\ Len(ids) = 0
         THEN failed(ErrInvalidInput("calendarIds", Str("at least one calendar ID required")),
                     ErrAPIError)
         ELSE IF q.err # Nil THEN failed(q.err, q.g)
         ELSE IF fpc = "FindFreeSlots" /\ fb.calendarID \notin DOMAIN q.response.Calendars
         THEN failed(ErrNotFound("calendar", fb.calendarID), q.g)
         ELSE /\ slotLoop' = [fn |-> fpc, current |-> fb.start, freeSlots |-> <<>>,
                           busy |-> IF fpc = "FindFreeSlots"
                                    THEN busyPeriods(q.response.Calendars[fb.calendarID].Busy)
                                    ELSE allBusyPeriods(q.response.Calendars,
                                                        DOMAIN q.response.Calendars)]
              /\ ErrAPIError' = q.g
              /\ fpc' = "loop"
              /\ UNCHANGED fbOut
  /\ UNCHANGED <<fb, remote, c, ctxDone>>
  /\ UNCHANGED <<opVars, batchVars, multiVars, callVars>>

\* for current.Add(slotDuration).Before(end) || ...Equal(end): the loop
\* condition, which starts an iteration or returns the slots found.
SlotsCond ==
  /\ fpc = "loop"
  /\ IF slotLoop.current + fb.slotDuration <= fb.end
     THEN /\ fpc' = "body"
          /\ UNCHANGED fbOut
     ELSE /\ fbOut' = MapSet(fbOut, slotLoop.fn, [slots |-> slotLoop.freeSlots, err |-> Nil])
          /\ fpc' = "done"
  /\ UNCHANGED <<fb, remote, slotLoop, c, ctxDone, ErrAPIError>>
  /\ UNCHANGED <<opVars, batchVars, multiVars, callVars>>

\* The body of the loop: the slot is appended if no busy period overlaps
\* it, and current moves on by slotDuration.
SlotsBody ==
  /\ fpc = "body"
  /\ LET slotEnd == slotLoop.current + fb.slotDuration
         isFree == ~\E k \in 1..Len(slotLoop.busy) :
                      slotLoop.current < slotLoop.busy[k].End /\ slotEnd > slotLoop.busy[k].Start
     IN  slotLoop' = [slotLoop EXCEPT
                        !.freeSlots = IF isFree /\ Len(@) < MaxLoopSteps
                                      THEN Append(@, slotLoop.current) ELSE @,
                        !.current = IF slotEnd > -MaxLoopSteps THEN slotEnd ELSE @]
  /\ fpc' = "loop"
  /\ UNCHANGED <<fb, remote, fbOut, c, ctxDone, ErrAPIError>>
  /\ UNCHANGED <<opVars, batchVars, multiVars, callVars>>

\* ============================================== calls without remote state
\* Longest results slice handed to GetBatchSummary.
MaxResults == 3

\* handleAPIError(err, operation) is called.
CallHandleAPIError ==
  /\ call.fn = "handleAPIError"
  /\ ret = NilResult
  /\ LET h == handleAPIError(ErrAPIError, call.err, call.operation)
     IN  /\ ret' = [err |-> h.err]
         /\ ErrAPIError' = h.g
  /\ UNCHANGED <<call, attendees, callers, c, ctxDone>>
  /\ UNCHANGED <<opVars, batchVars, multiVars, fbVars>>

\* isRetryable(err) is called.
CallIsRetryable ==
  /\ call.fn = "isRetryable"
  /\ ret = NilResult
  /\ ret' = [retryable |-> isRetryable(call.err)]
  /\ UNCHANGED <<call, attendees, callers, sharedVars>>
  /\ UNCHANGED <<opVars, batchVars, multiVars, fbVars>>

\* A summary whose loop has no else branch.
GetBatchSummary_NoElse(rs) ==
  LET RECURSIVE loop(_, _)
      loop(k, summary) ==
        IF k > Len(rs) THEN summary
        ELSE loop(k + 1, IF rs[k].Success
                         THEN [summary EXCEPT !.success = @ + 1]
                         ELSE summary)
  IN  [summary |-> loop(1, [total |-> Len(rs), success |-> 0, failed |-> 0]),
       results |-> rs]

\* GetBatchSummary(results): the map it returns and the slice afterwards.
GetBatchSummary(rs) ==
  LET RECURSIVE loop(_, _)
      loop(k, summary) ==
        IF k > Len(rs) THEN summary
        ELSE loop(k + 1, IF rs[k].Success
                         THEN [summary EXCEPT !.success = @ + 1]
                         ELSE [summary EXCEPT !.failed = @ + 1])
  IN  [summary |-> loop(1, [total |-> Len(rs), success |-> 0, failed |-> 0]),
       results |-> rs]

CallGetBatchSummary ==
  /\ call.fn = "GetBatchSummary"
  /\ ret = NilResult
  /\ ret' = GetBatchSummary(call.results)
  /\ UNCHANGED <<call, attendees, callers, sharedVars>>
  /\ UNCHANGED <<opVars, batchVars, multiVars, fbVars>>

\* ------------------------------------------------------- attendee management
\* The attendees (e-mail addresses) of the remote event before the call.
AttendeeLists == {<<>>, <<"a@b.co">>, <<"c@d.co">>, <<"a@b.co", "c@d.co">>}

\* UpdateEvent, "Update attendees if provided": the attendees of the event
\* it sends to the remote.
UpdateEventAttendees(existing, params) ==
  IF Len(params.Attendees) > 0 THEN params.Attendees ELSE existing

\* ManageAttendees(ctx, eventID, operation) on a remote event with the
\* attendees existing: what it can return, the attendees of the remote event
\* and the object behind types.ErrAPIError afterwards.
ManageAttendees(g, existing, eventID, op, maxRetries) ==
  LET bad(list) == {i \in 1..Len(list) : ~isValidEmail(list[i])}
      first(list) == list[CHOOSE i \in bad(list) : \A j \in bad(list) : i <= j]
      invalid(email) ==
        ErrInvalidInput("attendees", Sprintf("invalid email address: %s", <<email>>, <<>>))
      failed(err, g1) == [err |-> err, event |-> Nil, attendees |-> existing, g |-> g1]
      Range(list) == {list[i] : i \in 1..Len(list)}
      newAttendees == (Range(existing) \ Range(op.Remove)) \cup Range(op.Add)
      \* the slices the range over the map newAttendees can build
      Orderings ==
        {sq \in [1..Cardinality(newAttendees) -> newAttendees] :
           \A i, j \in 1..Cardinality(newAttendees) : sq[i] = sq[j] => i = j}
      getEvent(run) ==
        apiCall(g, [api |-> "GetEvent", eventID |-> eventID, params |-> NoParams],
                "get event", maxRetries, run)
      update(g1, emails, run1, run2) ==
        LET u == updateCall(g1, eventID, maxRetries, run1, run2)
            sent == UpdateEventAttendees(existing, [Attendees |-> emails])
        IN  IF u.err # Nil THEN failed(u.err, u.g)
            ELSE [err |-> Nil, event |-> [ID |-> eventID, Attendees |-> sent],
                  attendees |-> sent, g |-> u.g]
  IN  IF eventID = "" THEN {failed(ErrMissingRequired("event-id"), g)}
      ELSE IF bad(op.Add) # {} THEN {failed(invalid(first(op.Add)), g)}
      ELSE IF bad(op.Remove) # {} THEN {failed(invalid(first(op.Remove)), g)}
      ELSE UNION {IF getEvent(run).err # Nil
                  THEN {failed(getEvent(run).err, getEvent(run).g)}
                  ELSE {update(getEvent(run).g, emails, run1, run2) :
                          emails \in Orderings,
                          run1 \in RetryRuns(FALSE), run2 \in RetryRuns(FALSE)} :
                  run \in RetryRuns(FALSE)}

CallManageAttendees ==
  /\ call.fn = "ManageAttendees"
  /\ ret = NilResult
  /\ \E r \in ManageAttendees(ErrAPIError, attendees, call.eventID, call.operation,
                              c.MaxRetries) :
       /\ ret' = [err |-> r.err, event |-> r.event, existing |-> attendees]
       /\ attendees' = r.attendees
       /\ ErrAPIError' = r.g
  /\ UNCHANGED <<call, callers, c, ctxDone>>
  /\ UNCHANGED <<opVars, batchVars, multiVars, fbVars>>

\* ----------------------------------- attendee management by several callers
\* The goroutines (or processes) that call ManageAttendees on one event.
Callers == {1, 2}

\* The operations they pass.
AttendeeOperations ==
  [Add : {<<>>, <<"a@b.co">>, <<"c@d.co">>, <<"a@bc">>},
   Remove : {<<>>, <<"a@b.co">>, <<"c@d.co">>}]

\* Caller i returns err.
ManageReturn(i, err) == [callers EXCEPT ![i].pc = "returned", ![i].err = err]

\* ManageAttendees from its entry to the end of "Convert map to slice": the
\* checks, GetEvent, and the new attendee list built from what GetEvent read.
ManageGetEvent(i) ==
  /\ callers[i].pc = "entry"
  /\ LET op == callers[i].operation
         bad(list) == {k \in 1..Len(list) : ~isValidEmail(list[k])}
         first(list) == list[CHOOSE k \in bad(list) : \A j \in bad(list) : k <= j]
         invalid(email) ==
           ErrInvalidInput("attendees", Sprintf("invalid email address: %s", <<email>>, <<>>))
         elems(list) == {list[k] : k \in 1..Len(list)}
         newAttendees == (elems(attendees) \ elems(op.Remove)) \cup elems(op.Add)
     IN  IF call.eventID = ""
         THEN callers' = ManageReturn(i, ErrMissingRequired("event-id")) /\ UNCHANGED ErrAPIError
         ELSE IF bad(op.Add) # {}
         THEN callers' = ManageReturn(i, invalid(first(op.Add))) /\ UNCHANGED ErrAPIError
         ELSE IF bad(op.Remove) # {}
         THEN callers' = ManageReturn(i, invalid(first(op.Remove))) /\ UNCHANGED ErrAPIError
         ELSE \E run \in RetryRuns(FALSE) :
                LET got == apiCall(ErrAPIError,
                                   [api |-> "GetEvent", eventID |-> call.eventID,
                                    params |-> NoParams],
                                   "get event", c.MaxRetries, run)
                IN  /\ ErrAPIError' = got.g
                    /\ IF got.err # Nil
                       THEN callers' = ManageReturn(i, got.err)
                       ELSE \E emails \in
                                 {sq \in [1..Cardinality(newAttendees) -> newAttendees] :
                                    \A j, k \in 1..Cardinality(newAttendees) :
                                      sq[j] = sq[k] => j = k} :
                              callers' = [callers EXCEPT ![i].pc = "UpdateEvent",
                                                         ![i].emails = emails]
  /\ UNCHANGED <<call, ret, attendees, c, ctxDone>>
  /\ UNCHANGED <<opVars, batchVars, multiVars, fbVars>>

\* UpdateEvent from its entry to "Update with retry logic": GetEvent and the
\* event built from the parameters and from what GetEvent read.
UpdateEventGetEvent(i) ==
  /\ callers[i].pc = "UpdateEvent"
  /\ \E run \in RetryRuns(FALSE) :
       LET got == apiCall(ErrAPIError,
                          [api |-> "GetEvent", eventID |-> call.eventID, params |-> NoParams],
                          "get event", c.MaxRetries, run)
       IN  /\ ErrAPIError' = got.g
           /\ callers' =
                IF got.err # Nil THEN ManageReturn(i, got.err)
                ELSE [callers EXCEPT
                        ![i].pc = "Update",
                        ![i].sent = UpdateEventAttendees(attendees,
                                                         [Attendees |-> callers[i].emails])]
  /\ UNCHANGED <<call, ret, attendees, c, ctxDone>>
  /\ UNCHANGED <<opVars, batchVars, multiVars, fbVars>>

\* UpdateEvent from "Update with retry logic" to its return, which is the
\* return of ManageAttendees: the remote replaces the event by the one sent.
UpdateEventUpdate(i) ==
  /\ callers[i].pc = "Update"
  /\ \E run \in RetryRuns(FALSE) :
       LET w == withRetryResult(ErrAPIError, "update event", c.MaxRetries, run)
           h == handleAPIError(w.g, w.err, "update event")
       IN  /\ ErrAPIError' = h.g
           /\ callers' = ManageReturn(i, h.err)
           /\ attendees' = IF h.err = Nil THEN callers[i].sent ELSE attendees
  /\ UNCHANGED <<call, ret, c, ctxDone>>
  /\ UNCHANGED <<opVars, batchVars, multiVars, fbVars>>

\* --------------------------------------------------- natural-language dates
\* The input string is the sequence of its words (it has been trimmed and
\* put in lower case by ParseNaturalLanguageDate); a time.Time is the record
\* [year, month, day, hour, minute, second, offset] of its wall clock and its
\* zone offset in hours; an RFC 3339 string is the tuple of these numbers.

\* Days from 25 December 2023 to the last day taken for now.
MaxDayOffset == 70

DaysIn(year, month) ==
  IF month = 2
  THEN (IF year % 4 = 0 /\ (year % 100 # 0 \/ year % 400 = 0) THEN 29 ELSE 28)
  ELSE IF month \in {4, 6, 9, 11} THEN 30 ELSE 31

\* time.Date(year, month, day, hour, min, 0, 0, tz): a month or a day
\* outside its range is carried over.
RECURSIVE Date(_, _, _, _, _, _)
Date(year, month, day, hour, min, tz) ==
  IF month < 1 THEN Date(year - 1, month + 12, day, hour, min, tz)
  ELSE IF month > 12 THEN Date(year + 1, month - 12, day, hour, min, tz)
  ELSE IF day < 1
  THEN (IF month = 1
        THEN Date(year - 1, 12, day + 31, hour, min, tz)
        ELSE Date(year, month - 1, day + DaysIn(year, month - 1), hour, min, tz))
  ELSE IF day > DaysIn(year, month)
  THEN Date(year, month + 1, day - DaysIn(year, month), hour, min, tz)
  ELSE [year |-> year, month |-> month, day |-> day, hour |-> hour, minute |-> min,
        second |-> 0, offset |-> tz]

\* The days from Sunday 1 January 2023 to a date (time.Time counts days
\* to derive Weekday).
RECURSIVE DayNumber(_, _, _)
DayNumber(year, month, day) ==
  IF year = 2023 /\ month = 1 THEN day - 1
  ELSE IF month = 1 THEN DayNumber(year - 1, 12, day + 31)
  ELSE DayNumber(year, month - 1, day + DaysIn(year, month - 1))

\* t.Format(time.RFC3339)
FormatRFC3339(t) == <<t.year, t.month, t.day, t.hour, t.minute, t.second, t.offset>>

\* atRegex, (.*?)\s+at\s+(.+): the words before and after the first "at"
\* that has words on both sides.
atRegex(input) ==
  LET ats == {i \in 2..(Len(input) - 1) : input[i] = "at"}
      i == CHOOSE k \in ats : \A j \in ats : k <= j
  IN  IF ats = {} THEN [dateStr |-> input, timeStr |-> <<>>]
      ELSE [dateStr |-> SubSeq(input, 1, i - 1),
            timeStr |-> SubSeq(input, i + 1, Len(input))]

\* parseTimeOfDay: the strings one of the layouts "3pm", "3:04pm", "15:04",
\* "15:04:05" parses, with the hour and minute time.Parse gives them.
parseTimeOfDay(timeStr) ==
  LET clock == [s \in {"2pm", "12am", "3:30pm", "14:30", "14:30:45"} |->
                  CASE s = "2pm" -> [Hour |-> 14, Minute |-> 0]
                    [] s = "12am" -> [Hour |-> 0, Minute |-> 0]
                    [] s = "3:30pm" -> [Hour |-> 15, Minute |-> 30]
                    [] OTHER -> [Hour |-> 14, Minute |-> 30]]
  IN  IF Len(timeStr) = 1 /\ timeStr[1] \in DOMAIN clock
      THEN [t |-> clock[timeStr[1]], err |-> Nil]
      ELSE [t |-> [Hour |-> 0, Minute |-> 0], err |-> OtherError]

\* A parser that leaves the time of day out.
parseRelativeDate_DateOnly(input, now, tz) ==
  LET dateStr == atRegex(input).dateStr
      days == CASE dateStr = <<"today">> -> 0
                [] dateStr = <<"tomorrow">> -> 1
                [] dateStr = <<"yesterday">> -> -1
                [] OTHER -> 0
  IN  IF dateStr = <<"now">> THEN [value |-> FormatRFC3339(now), err |-> Nil]
      ELSE IF dateStr \notin {<<"today">>, <<"tomorrow">>, <<"yesterday">>}
      THEN [value |-> <<>>, err |-> OtherError]
      ELSE [value |-> FormatRFC3339(Date(now.year, now.month, now.day + days, 0, 0, tz)),
            err |-> Nil]

\* parseRelativeDate(input, now, tz)
parseRelativeDate(input, now, tz) ==
  LET dateStr == atRegex(input).dateStr
      timeStr == atRegex(input).timeStr
      days == CASE dateStr = <<"today">> -> 0
                [] dateStr = <<"tomorrow">> -> 1
                [] dateStr = <<"yesterday">> -> -1
                [] OTHER -> 0
      targetDate == Date(now.year, now.month, now.day + days, 0, 0, tz)
      parsedTime == parseTimeOfDay(timeStr)
  IN  IF dateStr = <<"now">> THEN [value |-> FormatRFC3339(now), err |-> Nil]
      ELSE IF dateStr \notin {<<"today">>, <<"tomorrow">>, <<"yesterday">>}
      THEN [value |-> <<>>, err |-> OtherError]
      ELSE IF timeStr # <<>>
      THEN (IF parsedTime.err # Nil THEN [value |-> <<>>, err |-> parsedTime.err]
            ELSE [value |-> FormatRFC3339(Date(targetDate.year, targetDate.month,
                                               targetDate.day, parsedTime.t.Hour,
                                               parsedTime.t.Minute, tz)),
                  err |-> Nil])
      ELSE [value |-> FormatRFC3339(targetDate), err |-> Nil]

\* A "next" that takes today for the next occurrence of today's weekday.
daysFromNow_NextToday(modifier, targetWeekday, currentWeekday) ==
  CASE modifier = "next" ->
         IF targetWeekday - currentWeekday < 0
         THEN targetWeekday - currentWeekday + 7 ELSE targetWeekday - currentWeekday
    [] modifier = "this" ->
         IF targetWeekday - currentWeekday < 0
         THEN targetWeekday - currentWeekday + 7 ELSE targetWeekday - currentWeekday
    [] modifier = "last" ->
         IF currentWeekday - targetWeekday <= 0
         THEN 0 - (currentWeekday - targetWeekday + 7) ELSE 0 - (currentWeekday - targetWeekday)

\* parseDayOfWeek, switch modifier: the days AddDate is given (daysUntil, or
\* -daysAgo).
daysFromNow(modifier, targetWeekday, currentWeekday) ==
  CASE modifier = "next" ->
         IF targetWeekday - currentWeekday <= 0
         THEN targetWeekday - currentWeekday + 7 ELSE targetWeekday - currentWeekday
    [] modifier = "this" ->
         IF targetWeekday - currentWeekday < 0
         THEN targetWeekday - currentWeekday + 7 ELSE targetWeekday - currentWeekday
    [] modifier = "last" ->
         IF currentWeekday - targetWeekday <= 0
         THEN 0 - (currentWeekday - targetWeekday + 7) ELSE 0 - (currentWeekday - targetWeekday)

\* parseDayOfWeek(input, now, tz)
parseDayOfWeek(input, now, tz) ==
  LET dateStr == atRegex(input).dateStr
      timeStr == atRegex(input).timeStr
      prefixed == Len(dateStr) >= 2 /\ dateStr[1] \in {"next", "this", "last"}
      modifier == IF prefixed THEN dateStr[1] ELSE "next"
      dayStr == IF prefixed THEN Tail(dateStr) ELSE dateStr
      dayMap ==
        [d \in {"sunday", "monday", "tuesday", "wednesday", "thursday", "friday", "saturday",
                "sun", "mon", "tue", "wed", "thu", "fri", "sat"} |->
           CASE d \in {"sunday", "sun"} -> 0
             [] d \in {"monday", "mon"} -> 1
             [] d \in {"tuesday", "tue"} -> 2
             [] d \in {"wednesday", "wed"} -> 3
             [] d \in {"thursday", "thu"} -> 4
             [] d \in {"friday", "fri"} -> 5
             [] d \in {"saturday", "sat"} -> 6]
      ok == Len(dayStr) = 1 /\ dayStr[1] \in DOMAIN dayMap
      \* now.Weekday(): the days from Sunday 1 January 2023, modulo 7
      currentWeekday == DayNumber(now.year, now.month, now.day) % 7
      \* now.AddDate(0, 0, daysUntil) or now.AddDate(0, 0, -daysAgo)
      added == Date(now.year, now.month,
                    now.day + daysFromNow(modifier, dayMap[dayStr[1]], currentWeekday),
                    now.hour, now.minute, now.offset)
      targetDate == Date(added.year, added.month, added.day, 0, 0, tz)
      parsedTime == parseTimeOfDay(timeStr)
  IN  IF ~ok THEN [value |-> <<>>, err |-> OtherError]
      ELSE IF timeStr # <<>>
      THEN (IF parsedTime.err # Nil THEN [value |-> <<>>, err |-> parsedTime.err]
            ELSE [value |-> FormatRFC3339(Date(targetDate.year, targetDate.month,
                                               targetDate.day, parsedTime.t.Hour,
                                               parsedTime.t.Minute, tz)),
                  err |-> Nil])
      ELSE [value |-> FormatRFC3339(targetDate), err |-> Nil]

CallParseRelativeDate ==
  /\ call.fn = "parseRelativeDate"
  /\ ret = NilResult
  /\ ret' = parseRelativeDate(call.input, call.now, call.tz)
  /\ UNCHANGED <<call, attendees, callers, sharedVars>>
  /\ UNCHANGED <<opVars, batchVars, multiVars, fbVars>>

CallParseDayOfWeek ==
  /\ call.fn = "parseDayOfWeek"
  /\ ret = NilResult
  /\ ret' = parseDayOfWeek(call.input, call.now, call.tz)
  /\ UNCHANGED <<call, attendees, callers, sharedVars>>
  /\ UNCHANGED <<opVars, batchVars, multiVars, fbVars>>

\* parseTimeOffset(input, now): offsetRegex matches "in", a number and a
\* unit and nothing else; amounts holds the numbers the model writes, with
\* the value Sscanf reads from them.
parseTimeOffset(input, now) ==
  LET amounts == [s \in {"2", "30"} |-> IF s = "2" THEN 2 ELSE 30]
      units == {"minute", "minutes", "hour", "hours", "day", "days", "week", "weeks",
                "month", "months"}
      amount == amounts[input[2]]
      unit == input[3]
      \* now.Add(n minutes)
      Add(n) ==
        LET total == now.hour * 60 + now.minute + n
        IN  Date(now.year, now.month, now.day + (total \div 1440), (total % 1440) \div 60,
                 total % 60, now.offset)
      \* now.AddDate(0, months, days)
      AddDate(months, days) ==
        Date(now.year, now.month + months, now.day + days, now.hour, now.minute, now.offset)
      shifted ==
        CASE unit \in {"minute", "minutes"} -> Add(amount)
          [] unit \in {"hour", "hours"} -> Add(amount * 60)
          [] unit \in {"day", "days"} -> AddDate(0, amount)
          [] unit \in {"week", "weeks"} -> AddDate(0, amount * 7)
          [] unit \in {"month", "months"} -> AddDate(amount, 0)
  IN  IF Len(input) = 3 /\ input[1] = "in" /\ input[2] \in DOMAIN amounts /\ input[3] \in units
      THEN [value |-> FormatRFC3339(shifted), err |-> Nil]
      ELSE [value |-> <<>>, err |-> OtherError]

\* A parser that does not try the time offsets.
ParseNaturalLanguageDate_NoOffset(input, now, tz) ==
  IF parseRelativeDate(input, now, tz).err = Nil THEN parseRelativeDate(input, now, tz)
  ELSE IF parseDayOfWeek(input, now, tz).err = Nil THEN parseDayOfWeek(input, now, tz)
  ELSE [value |-> <<>>, err |-> OtherError]

\* ParseNaturalLanguageDate(input, timezone) with now := time.Now().In(timezone);
\* parseSpecificDateTime, tried last, returns an error for every input.
ParseNaturalLanguageDate(input, now, tz) ==
  LET parseSpecificDateTime == [value |-> <<>>, err |-> OtherError]
  IN  IF parseRelativeDate(input, now, tz).err = Nil THEN parseRelativeDate(input, now, tz)
      ELSE IF parseTimeOffset(input, now).err = Nil THEN parseTimeOffset(input, now)
      ELSE IF parseDayOfWeek(input, now, tz).err = Nil THEN parseDayOfWeek(input, now, tz)
      ELSE IF parseSpecificDateTime.err = Nil THEN parseSpecificDateTime
      ELSE [value |-> <<>>, err |-> OtherError]

CallParseNaturalLanguageDate ==
  /\ call.fn = "ParseNaturalLanguageDate"
  /\ ret = NilResult
  /\ ret' = ParseNaturalLanguageDate(call.input, call.now, call.tz)
  /\ UNCHANGED <<call, attendees, callers, sharedVars>>
  /\ UNCHANGED <<opVars, batchVars, multiVars, fbVars>>

\* The calls made: isRetryable with what a remote call returned or with the
\* error of a cancelled wait; handleAPIError with what a remote call returned and the
\* operation string of an API function; GetBatchSummary with the results of
\* a finished batch, one non-nil BatchResult per item; ManageAttendees with
\* Add and Remove lists that may name an address twice or hold one that
\* isValidEmail refuses; the date parsers with now := time.Now().In(timezone)
\* from 25 December 2023 on, in the zone they are given.
Calls ==
  LET EmailLists == AttendeeLists \cup {<<"a@b.co", "a@b.co">>, <<"a@bc">>}
      Nows(tz) ==
        {Date(2023, 12, 25 + k, h, 0, tz) : k \in 0..MaxDayOffset, h \in {0, 10, 23}}
      TimeParts ==
        {<<>>, <<"at", "2pm">>, <<"at", "3:30pm">>, <<"at", "14:30">>, <<"at", "noon">>}
  IN  [fn : {"handleAPIError"}, err : FnOutcomes,
       operation : {"create event", "list events", "get event", "update event",
                    "delete event"}]
        \cup
      [fn : {"isRetryable"}, err : FnOutcomes \cup {ErrNetworkError("operation cancelled")}]
        \cup
      [fn : {"GetBatchSummary"},
       results : UNION {{[k \in 1..n |-> [Success |-> ok[k], Index |-> k - 1]] :
                           ok \in [1..n -> BOOLEAN]} : n \in 0..MaxResults}]
        \cup
      [fn : {"ManageAttendees"}, eventID : EventIDs,
       operation : [Add : EmailLists, Remove : EmailLists]]
        \cup
      UNION {[fn : {"parseRelativeDate"},
              input : {<<d>> \o t : d \in {"now", "today", "tomorrow", "yesterday", "monday"},
                                    t \in TimeParts},
              now : Nows(tz), tz : {tz}]
               \cup
             [fn : {"parseDayOfWeek"},
              input : {p \o <<d>> \o t :
                         p \in {<<>>, <<"next">>, <<"this">>, <<"last">>},
                         d \in {"sunday", "monday", "tuesday", "wednesday", "thursday",
                                "friday", "saturday", "sat", "today"},
                         t \in {<<>>, <<"at", "2pm">>, <<"at", "noon">>}},
              now : Nows(tz), tz : {tz}]
               \cup
             [fn : {"ParseNaturalLanguageDate"},
              input : {<<"in", n, u>> : n \in {"2", "30", "two"},
                                        u \in {"minutes", "hour", "days", "week", "months",
                                               "years"}}
                        \cup {<<"tomorrow", "at", "2pm">>, <<"today", "at", "noon">>,
                              <<"next", "monday", "at", "3:30pm">>, <<"friday">>,
                              <<"in", "2", "days", "at", "2pm">>, <<"monday", "in", "2", "days">>,
                              <<"jan", "15", "at", "2pm">>, <<"now">>},
              now : {n \in Nows(tz) : n.hour # 0}, tz : {tz}] :
             tz \in {-5, 1}}

\* ============================================================ specifications
\* No batch call is in progress.
BatchIdle ==
  /\ b = [kind |-> "create", items |-> <<>>, ContinueOnError |-> FALSE, MaxConcurrent |-> 0]
  /\ bpc = "idle"
  /\ semCap = 0
  /\ sem = 0
  /\ mu = 0
  /\ tpc = <<>>
  /\ terr = <<>>
  /\ snap = <<>>
  /\ results = <<>>
  /\ order = <<>>
  /\ batchErr = Nil

\* No single-event call is in progress.
OpIdle ==
  /\ req = [api |-> "GetEvent", eventID |-> "", params |-> NoParams]
  /\ pc = "idle"
  /\ operation = ""
  /\ attempt = 0
  /\ lastErr = Nil
  /\ retErr = Nil
  /\ result = Nil
  /\ hist = HistInit

\* No multi-calendar call is in progress.
MultiIdle ==
  /\ m = [kind |-> "list", calendarIDs |-> <<>>]
  /\ mpc = "idle"
  /\ gpc = <<>>
  /\ gout = <<>>
  /\ mlock = 0
  /\ mres = NilResult
  /\ errorsChan = <<>>
  /\ mret = NilResult

\* No free/busy call is made.
FBIdle ==
  /\ fb = [calendarID |-> "cal1", calendarIDs |-> <<>>, start |-> 0, end |-> 0,
           slotDuration |-> 1]
  /\ remote = [Calendars |-> [calID \in CalendarIDs |-> [Busy |-> <<>>, Errors |-> <<>>]],
               err |-> Nil]
  /\ fpc = "idle"
  /\ fbOut = <<>>
  /\ slotLoop = NilResult

\* No such call is made.
CallIdle ==
  /\ call = [fn |-> "none"]
  /\ ret = NilResult
  /\ attendees = <<>>
  /\ callers = <<>>

\* One single-event call on a Client with any retry settings.
Init == InitShared /\ InitOp /\ BatchIdle /\ MultiIdle /\ FBIdle /\ CallIdle

Next ==
  \/ Cancel
  \/ ApiEnter
  \/ withRetryLoop
  \/ withRetryBackoffElapsed
  \/ withRetryCancelled
  \/ withRetryInvoke
  \/ withRetryWrap
  \/ withRetryWrapConcurrent
  \/ ApiReturn

Spec == Init /\ [][Next]_vars

\* One batch call on a Client made by NewClient.
InitB ==
  /\ c = NewClient
  /\ ctxDone = FALSE
  /\ ErrAPIError = ErrAPIErrorInit
  /\ InitBatch
  /\ OpIdle
  /\ MultiIdle
  /\ FBIdle
  /\ CallIdle

NextB ==
  \/ BatchCancel
  \/ BatchEnter
  \/ \E i \in Tasks : TaskAcquire(i)
  \/ \E i \in Tasks : TaskOp(i)
  \/ \E i \in Tasks : TaskStore(i)
  \/ \E i \in Tasks : TaskUnlock(i)
  \/ \E i \in Tasks : TaskRelease(i)
  \/ BatchReturn

SpecBatch == InitB /\ [][NextB]_vars

\* One multi-calendar call on a Client made by NewClient.
InitM ==
  /\ c = NewClient
  /\ ctxDone = FALSE
  /\ ErrAPIError = ErrAPIErrorInit
  /\ m \in MultiCalls
  /\ mpc = "entry"
  /\ gpc = [i \in Goroutines |-> "unborn"]
  /\ gout = [i \in Goroutines |-> NilResult]
  /\ mlock = 0
  /\ mres = NilResult
  /\ errorsChan = <<>>
  /\ mret = NilResult
  /\ OpIdle
  /\ BatchIdle
  /\ FBIdle
  /\ CallIdle

NextM ==
  \/ MultiEnter
  \/ \E i \in Goroutines : CalendarCall(i)
  \/ \E i \in Goroutines : CalendarStore(i)
  \/ \E i \in Goroutines : CalendarUnlock(i)
  \/ MultiReturn

SpecMulti == InitM /\ [][NextM]_vars

\* One batch call or one multi-calendar call.
SpecBulk == (InitB \/ InitM) /\ [][NextB \/ NextM]_vars

\* A caller that asks the free/busy questions about one calendar (and one
\* list of calendars), one window and one slot duration, one after another,
\* against the same remote data.
InitF ==
  /\ c = NewClient
  /\ ctxDone = FALSE
  /\ ErrAPIError = ErrAPIErrorInit
  /\ fb \in [calendarID : CalendarIDs, calendarIDs : {<<"cal1", "cal2">>},
              start : 0..(TicksPerSecond * MaxSecond),
              end : 0..(TicksPerSecond * MaxSecond),
              slotDuration : 1..MaxSlotDuration]
  /\ remote \in Remotes
  /\ fpc = "IsBusy"
  /\ fbOut = <<>>
  /\ slotLoop = NilResult
  /\ OpIdle
  /\ BatchIdle
  /\ MultiIdle
  /\ CallIdle

NextF ==
  \/ CallIsBusy
  \/ CallCheckConflicts
  \/ CallFindFreeSlots
  \/ CallFindCommonFreeTime
  \/ CallQueryFreeBusy

SpecFreeBusy == InitF /\ [][NextF]_vars

\* One call of FindFreeSlots or FindCommonFreeTime followed step by step,
\* with any slot duration, negative and zero included; the calendars of the
\* remote hold the same busy list.  The goroutine that makes the call keeps
\* running.
InitS ==
  /\ c = NewClient
  /\ ctxDone = FALSE
  /\ ErrAPIError = ErrAPIErrorInit
  /\ fb \in [calendarID : {"cal1"}, calendarIDs : {<<"cal1", "cal2">>},
              start : 0..(TicksPerSecond * MaxSecond),
              end : 0..(TicksPerSecond * MaxSecond),
              slotDuration : (-1)..MaxSlotDuration]
  /\ remote \in [Calendars : {[calID \in CalendarIDs |-> cal] : cal \in RemoteCalendars},
                 err : {Nil, GoogleAPIError(503)}]
  /\ fpc \in {"FindFreeSlots", "FindCommonFreeTime"}
  /\ fbOut = <<>>
  /\ slotLoop = NilResult
  /\ OpIdle
  /\ BatchIdle
  /\ MultiIdle
  /\ CallIdle

NextS ==
  \/ SlotsEnter
  \/ SlotsCond
  \/ SlotsBody

SpecSlots == InitS /\ [][NextS]_vars /\ WF_vars(NextS)

\* One call of one of the functions above, on a Client made by NewClient.
InitC ==
  /\ c = NewClient
  /\ ctxDone = FALSE
  /\ ErrAPIError = ErrAPIErrorInit
  /\ call \in Calls
  /\ ret = NilResult
  /\ attendees \in IF call.fn = "ManageAttendees" THEN AttendeeLists ELSE {<<>>}
  /\ callers = <<>>
  /\ OpIdle
  /\ BatchIdle
  /\ MultiIdle
  /\ FBIdle

NextC ==
  \/ CallIsRetryable
  \/ CallHandleAPIError
  \/ CallGetBatchSummary
  \/ CallManageAttendees
  \/ CallParseRelativeDate
  \/ CallParseDayOfWeek
  \/ CallParseNaturalLanguageDate

SpecCalls == InitC /\ [][NextC]_vars

\* Two ManageAttendees calls on one event of a Client made by NewClient,
\* running side by side.
InitA ==
  /\ c = NewClient
  /\ ctxDone = FALSE
  /\ ErrAPIError = ErrAPIErrorInit
  /\ attendees \in AttendeeLists
  /\ call = [fn |-> "ManageAttendees", eventID |-> "evt1", existing |-> attendees]
  /\ ret = NilResult
  /\ callers \in [Callers -> [pc : {"entry"}, operation : AttendeeOperations,
                              emails : {<<>>}, sent : {<<>>}, err : {Nil}]]
  /\ OpIdle
  /\ BatchIdle
  /\ MultiIdle
  /\ FBIdle

NextA ==
  \/ \E i \in Callers : ManageGetEvent(i)
  \/ \E i \in Callers : UpdateEventGetEvent(i)
  \/ \E i \in Callers : UpdateEventUpdate(i)

SpecAttendees == InitA /\ [][NextA]_vars

\* ================================================================== claims
\* withRetry has returned (its caller may have gone on to return as well).
withRetryReturned == hist.exit # "running"

\* Every invocation so far failed with a retryable error.
AllRetryableFailures == hist.retryable = hist.calls

ClassifiedCode(status) ==
  Deref(ErrAPIErrorInit, handleAPIError(ErrAPIErrorInit, GoogleAPIError(status), "op").err).Code

\* C2: a single-event operation whose remote call failed with status 400,
\* 401, 403 or 404 returns an error of the kind the classifier assigns to
\* that status (INVALID_INPUT, AUTH_FAILED, PERMISSION_DENIED, NOT_FOUND).
C2_KindPropagates ==
  (/\ pc = "returned"
   /\ hist.exit = "wrapped"
   /\ hist.lastCall.ref = "googleapi"
   /\ hist.lastCall.Code \in {400, 401, 403, 404})
    => Deref(ErrAPIError, result).Code = ClassifiedCode(hist.lastCall.Code)

\* C3: once an invocation has failed with a non-retryable error, withRetry
\* is out of its loop: the number of invocations stays at the position of
\* that failure and no backoff wait follows it.
C3_StopsAtFirstFatal ==
  hist.firstFatal > 0
    => /\ hist.calls = hist.firstFatal
       /\ hist.waits = hist.firstFatal - 1
       /\ pc \in {"wrap", "handle", "returned"}

C3_Witness ==
  /\ hist.firstFatal = 2
  /\ hist.exit = "wrapped"
  /\ pc = "returned"

\* C4: once the context has been cancelled during a backoff wait, the
\* wrapped call is not invoked again, the only step withRetry takes is its
\* return, and what it returns is the NETWORK_ERROR "operation cancelled".
C4_CancelledDuringBackoff ==
  hist.cancelledAt # -1
    => /\ hist.calls = hist.cancelledAt
       /\ pc \in {"backoff", "handle", "returned"}
       /\ pc # "backoff"
            => /\ hist.exit = "cancelled"
               /\ retErr.ref = "new"
               /\ retErr.Code = ErrCodeNetworkError
               /\ retErr.Message = Str("operation cancelled")

C4_Witness ==
  /\ hist.cancelledAt = 2
  /\ hist.exit = "cancelled"
  /\ pc = "returned"

\* ----------------------------------------------------------- batch claims
\* The results whose operation failed, as positions of the results slice.
Failed == {k \in 1..Len(results) : results[k] # NilResult /\ ~results[k].Success}

\* The goroutine a result comes from.
TaskOf(k) == results[k].Index + 1

\* C5: BatchCreateEvents and BatchDeleteEvents return one result per item,
\* and whatever the order of completion the result at position i is
\* non-nil, has Index i and records what the operation on item i returned.
C5_ResultsByIndex ==
  (bpc = "returned" /\ b.kind \in {"create", "delete"})
    => /\ Len(results) = N
       /\ \A i \in 1..N :
            /\ results[i] # NilResult
            /\ results[i].Index = i - 1
            /\ results[i].Success = (terr[i] = Nil)
            /\ results[i].Error = terr[i]
            /\ b.kind = "delete" => results[i].EventID = b.items[i]
            /\ (b.kind = "create" /\ results[i].Success)
                 => results[i].Event.Summary = b.items[i].Summary

\* Item 2 completed before item 1, one of them failed.
C5_Witness ==
  /\ bpc = "returned"
  /\ b.kind \in {"create", "delete"}
  /\ order = <<2, 1>>
  /\ terr[1] # Nil
  /\ terr[2] = Nil

\* C6: BatchUpdateEvents returns one result per entry of Updates and the
\* result at position i has Index i, whatever the order of completion.
C6_UpdateResultsByIndex ==
  (bpc = "returned" /\ b.kind = "update")
    => /\ Len(results) = N
       /\ \A i \in 1..N : results[i].Index = i - 1

\* C7: when a batch call has returned, the Error of every failed result
\* still has the fields it had when that item's operation returned, and it
\* is an object of its own: not the Error of another failed result and not
\* the error of the batch call.
C7_OwnFailureKept ==
  bpc = "returned"
    => \A k \in Failed :
         /\ Deref(ErrAPIError, results[k].Error) = snap[TaskOf(k)]
         /\ results[k].Error.ref = "ErrAPIError" => batchErr.ref # "ErrAPIError"
         /\ \A j \in Failed \ {k} :
              ~(results[k].Error.ref = "ErrAPIError" /\ results[j].Error.ref = "ErrAPIError")

\* Every item has been attempted and has its result.
AllAttempted ==
  /\ Len(results) = N
  /\ \A i \in Tasks : tpc[i] = "done"
  /\ {TaskOf(k) : k \in 1..Len(results)} = Tasks

\* C8 as stated: a batch call attempts every item, returns all results, and
\* returns an error exactly when ContinueOnError is false and an item failed.
C8_ErrorIffFailureNotContinued ==
  bpc = "returned"
    => /\ AllAttempted
       /\ (batchErr # Nil) <=> (~b.ContinueOnError /\ Failed # {})

\* C8 as amended: the same for a batch call with at least one item (a call
\* with no item is refused with an error whatever ContinueOnError is).
C8_ErrorIffFailureNotContinuedNonEmpty ==
  (bpc = "returned" /\ N > 0)
    => /\ AllAttempted
       /\ (batchErr # Nil) <=> (~b.ContinueOnError /\ Failed # {})

C8_Witness ==
  /\ bpc = "returned"
  /\ N = 2
  /\ b.ContinueOnError
  /\ Cardinality(Failed) = 2
  /\ batchErr = Nil

\* The batch call has made its semaphore and started its goroutines.
BatchStarted == bpc \in {"wait", "returned"} /\ N > 0

\* The goroutines that hold a permit, and those of them inside the
\* operation.
Holders == {i \in Tasks : tpc[i] \in {"op", "lock", "unlock", "release"}}

Running == {i \in Tasks : tpc[i] = "op"}

\* The limit the code applies: MaxConcurrent, or 5 when it is not positive.
EffectiveMaxConcurrent ==
  IF b.MaxConcurrent <= 0 THEN DefaultMaxConcurrent ELSE b.MaxConcurrent

\* C9: during a batch call the operations in progress never outnumber the
\* effective MaxConcurrent, and a goroutine is inside its operation only
\* between taking its permit and giving it back.
C9_BoundedConcurrency ==
  BatchStarted
    => /\ semCap = EffectiveMaxConcurrent
       /\ sem = Cardinality(Holders)
       /\ Running \subseteq Holders
       /\ Cardinality(Running) <= EffectiveMaxConcurrent
       /\ sem <= EffectiveMaxConcurrent

\* One operation in progress under a limit of 1, the other waiting for the
\* permit.
C9_Witness ==
  /\ bpc = "wait"
  /\ b.MaxConcurrent = 1
  /\ tpc = <<"op", "acquire">>

Min(x, y) == IF x <= y THEN x ELSE y

Max(x, y) == IF x >= y THEN x ELSE y

\* C10: the limit in force in a batch call is 5 when MaxConcurrent is not
\* set and MaxConcurrent clamped to 1..10 otherwise.
C10_LimitClamped ==
  BatchStarted
    => semCap = IF b.MaxConcurrent <= 0
                THEN DefaultMaxConcurrent
                ELSE Min(Max(b.MaxConcurrent, 1), DocumentedMaxConcurrent)

\* The goroutines of the multi-calendar call whose remote call succeeded,
\* and those whose remote call failed.
Succeeded == {i \in Goroutines : gout[i] # NilResult /\ gout[i].err = Nil}

FailedCalendars == {i \in Goroutines : gout[i] # NilResult /\ gout[i].err # Nil}

\* C11: when ListEventsMultiCalendar or CreateEventMultiCalendar has
\* returned, the remote call of every requested calendar ID has been made,
\* also for the IDs after one that failed, and every goroutine has ended:
\* none is still running or about to write a result.
C11_AllAttemptedAndJoined ==
  mpc = "returned" =>
    \A i \in Goroutines : gpc[i] = "done" /\ gout[i] # NilResult

\* C11 witness: a call for two calendars has returned after the first
\* calendar failed and the second was still queried and succeeded.
C11_Witness ==
  /\ mpc = "returned"
  /\ NC = 2
  /\ 1 \in FailedCalendars
  /\ 2 \in Succeeded

\* C12: when one calendar succeeds and another fails, the caller receives a
\* result that holds every successful calendar, and an error for every
\* failed calendar.
C12_PartialFailureKept ==
  (mpc = "returned" /\ Succeeded # {} /\ FailedCalendars # {}) =>
    /\ mret.result # NilResult
    /\ \A i \in Succeeded :
         m.calendarIDs[i] \in (IF m.kind = "list" THEN DOMAIN mret.result.ByCalendar
                               ELSE DOMAIN mret.result)
    /\ Len(errorsChan) = 0

\* C20: the events ListEventsMultiCalendar returns are in ascending order of
\* the instants at which they start.
C20_EventsAscendingByStart ==
  (mpc = "returned" /\ m.kind = "list" /\ mret.err = Nil /\ NC > 0) =>
    \A k \in 1..(Len(mret.result.Events) - 1) :
      Instant(startKey(mret.result.Events[k])) <= Instant(startKey(mret.result.Events[k + 1]))

\* The free/busy calls the caller has made so far.
Called == DOMAIN fbOut

\* The busy list the remote holds for the calendar of the single-calendar
\* calls, with its timestamps as instants.
TargetBusy == busyPeriods(remote.Calendars[fb.calendarID].Busy)

\* The positions in TargetBusy of the periods p with p.start < end and
\* p.end > start.
OverlappingWindow ==
  {k \in 1..Len(TargetBusy) : TargetBusy[k].Start < fb.end /\ TargetBusy[k].End > fb.start}

\* C13: a CheckConflicts call that returns without error returns exactly the
\* busy periods p of the calendar with p.start < end and p.end > start, each
\* once and none that only touches the window, and hasConflict is true
\* exactly when there is such a period.
C13_ExactlyOverlapping ==
  ("CheckConflicts" \in Called /\ fbOut["CheckConflicts"].err = Nil) =>
    LET r == fbOut["CheckConflicts"]
        busy == remote.Calendars[fb.calendarID].Busy
    IN  /\ Len(r.conflicts) = Cardinality(OverlappingWindow)
        /\ \A k \in 1..Len(busy) :
             (k \in OverlappingWindow) <=> (\E j \in 1..Len(r.conflicts) : r.conflicts[j] = busy[k])
        /\ r.hasConflict <=> (OverlappingWindow # {})

\* C13 witness: CheckConflicts has returned one conflict for a calendar with
\* two busy periods, the other of which ends exactly where the window starts.
C13_Witness ==
  /\ "CheckConflicts" \in Called
  /\ fbOut["CheckConflicts"].err = Nil
  /\ Len(fbOut["CheckConflicts"].conflicts) = 1
  /\ Len(TargetBusy) = 2
  /\ TargetBusy[1].End = fb.start

\* C14: for the same calendar, the same window start < end and the same
\* remote data, IsBusy answers true only if CheckConflicts reports a
\* conflict.
C14_IsBusyOnlyIfConflict ==
  ( /\ {"IsBusy", "CheckConflicts"} \subseteq Called
    /\ fb.start < fb.end
    /\ fbOut["CheckConflicts"].err = Nil
    /\ ~fbOut["CheckConflicts"].hasConflict )
  => ~fbOut["IsBusy"].busy

\* The stride positions start + k * slotDuration whose slot ends at or before
\* end.
StridePositions ==
  {t \in fb.start..fb.end :
     /\ \E k \in 0..(fb.end - fb.start) : t = fb.start + k * fb.slotDuration
     /\ t + fb.slotDuration <= fb.end}

\* C15: a FindFreeSlots call that returns without error returns, in ascending
\* order, exactly the stride positions whose slot overlaps no busy period of
\* the calendar (all of them when the calendar has no busy period), for a
\* positive slot duration.
C15_FreeSlotsExact ==
  ("FindFreeSlots" \in Called /\ fbOut["FindFreeSlots"].err = Nil) =>
    LET slots == fbOut["FindFreeSlots"].slots
    IN  /\ \A i \in 1..(Len(slots) - 1) : slots[i] < slots[i + 1]
        /\ {slots[i] : i \in 1..Len(slots)} =
             {t \in StridePositions :
                \A k \in 1..Len(TargetBusy) :
                  ~(t < TargetBusy[k].End /\ t + fb.slotDuration > TargetBusy[k].Start)}

\* C15 witness: FindFreeSlots has returned slots, the last of which ends
\* exactly at the end of the window, and left out a stride position that is
\* busy.
C15_Witness ==
  /\ "FindFreeSlots" \in Called
  /\ fbOut["FindFreeSlots"].err = Nil
  /\ LET slots == fbOut["FindFreeSlots"].slots
     IN  /\ Len(slots) >= 1
         /\ slots[Len(slots)] + fb.slotDuration = fb.end
         /\ Len(slots) < Cardinality(StridePositions)

C17_FetchErrorReported ==
  \A api \in {"IsBusy", "CheckConflicts"} \cap Called :
    (fb.start < fb.end /\ remote.Calendars[fb.calendarID].Errors # <<>>)
    => fbOut[api].err # Nil

BadWindow(request) ==
  \/ request.TimeMin = EmptyTimeString
  \/ request.TimeMax = EmptyTimeString
  \/ /\ request.TimeMin.kind = "rfc3339"
     /\ request.TimeMax.kind = "rfc3339"
     /\ request.TimeMin.sec >= request.TimeMax.sec

\* C19: QueryFreeBusy, IsBusy, FindFreeSlots and CheckConflicts return an
\* error and send no query to the remote when a bound of the window is
\* missing or timeMin >= timeMax, timeMin = timeMax included.
C19_WindowValidated ==
  /\ \A api \in {"IsBusy", "FindFreeSlots", "CheckConflicts"} \cap Called :
       fb.start >= fb.end => (fbOut[api].err # Nil /\ ~fbOut[api].queried)
  /\ ("QueryFreeBusy" \in Called /\ BadWindow(fbOut["QueryFreeBusy"].request)) =>
       (fbOut["QueryFreeBusy"].err # Nil /\ ~fbOut["QueryFreeBusy"].queried)

\* ------------------------------------------------ cancellation of a batch
\* C21: a batch call whose context was cancelled while it ran still returns
\* one non-nil result per item, and each result records what the operation
\* on its item returned (success or failure).
C21_CancelledBatchResolved ==
  (bpc = "returned" /\ ctxDone /\ N > 0)
    => /\ Len(results) = N
       /\ \A k \in 1..N : results[k] # NilResult
       /\ {TaskOf(k) : k \in 1..N} = Tasks
       /\ \A k \in 1..N :
            /\ results[k].Success = (terr[TaskOf(k)] = Nil)
            /\ results[k].Error = terr[TaskOf(k)]

\* The context was cancelled during the call; item 1 was cancelled in a
\* backoff wait, item 2 completed.
C21_Witness ==
  /\ bpc = "returned"
  /\ ctxDone
  /\ N = 2
  /\ terr[2] = Nil
  /\ terr[1] # Nil
  /\ snap[1].wrapped = ErrNetworkError("operation cancelled")
  /\ \E k \in 1..2 : results[k].Index = 0 /\ ~results[k].Success

\* ------------------------------------------------ calls without remote state
\* The elements of a list.
Range(list) == {list[i] : i \in 1..Len(list)}

\* The kind the table of C22 gives an error of a remote call.
TableKind(err) ==
  IF err.ref # "googleapi" THEN ErrCodeAPIError
  ELSE CASE err.Code = 400 -> ErrCodeInvalidInput
         [] err.Code = 401 -> ErrCodeAuthFailed
         [] err.Code = 403 -> ErrCodePermissionDenied
         [] err.Code = 404 -> ErrCodeNotFound
         [] err.Code = 409 -> ErrCodeInvalidInput
         [] err.Code = 429 -> ErrCodeRateLimit
         [] OTHER -> ErrCodeAPIError

\* C22: handleAPIError returns nil exactly for a nil error; for any other
\* error it returns an AppError whose code is the one the table gives the
\* remote status (API_ERROR for a status the table does not name and for an
\* error that is not a remote API error), with the re-authentication
\* suggestion for 401.
C22_StatusTable ==
  (call.fn = "handleAPIError" /\ ret # NilResult)
    => /\ (ret.err = Nil) <=> (call.err = Nil)
       /\ call.err # Nil
            => /\ ret.err.ref \in {"new", "ErrAPIError"}
               /\ Deref(ErrAPIError, ret.err).Code = TableKind(call.err)
               /\ (call.err.ref = "googleapi" /\ call.err.Code = 401)
                    => ret.err.SuggestedAction
                         = Str("Run 'gcal-cli auth login' to re-authenticate")

\* A 409 answer came back as INVALID_INPUT "conflict with existing event".
C22_Witness ==
  /\ call.fn = "handleAPIError"
  /\ call.err = GoogleAPIError(409)
  /\ ret # NilResult
  /\ ret.err.Code = ErrCodeInvalidInput
  /\ ret.err.Message = Str("conflict with existing event")

\* C23: GetBatchSummary returns total = the number of results, success =
\* the number of results with Success true, failed = the number with
\* Success false, so that success + failed = total, and the results slice
\* is as it was.
C23_SummaryCounts ==
  (call.fn = "GetBatchSummary" /\ ret # NilResult)
    => LET rs == call.results
       IN  /\ ret.summary.total = Len(rs)
           /\ ret.summary.success = Cardinality({k \in 1..Len(rs) : rs[k].Success})
           /\ ret.summary.failed = Cardinality({k \in 1..Len(rs) : ~rs[k].Success})
           /\ ret.summary.success + ret.summary.failed = ret.summary.total
           /\ ret.results = rs

\* Two successes and one failure were summarised.
C23_Witness ==
  /\ call.fn = "GetBatchSummary"
  /\ ret # NilResult
  /\ Len(call.results) = 3
  /\ ret.summary = [total |-> 3, success |-> 2, failed |-> 1]

\* C24: after ManageAttendees has succeeded, the attendees of the event are
\* the previous ones without those of Remove, together with those of Add,
\* each address once; this includes the case where no attendee is left.
C24_AttendeeSetUpdated ==
  (call.fn = "ManageAttendees" /\ ret # NilResult /\ ret.err = Nil)
    => /\ Range(attendees)
            = (Range(ret.existing) \ Range(call.operation.Remove)) \cup Range(call.operation.Add)
       /\ \A i, j \in 1..Len(attendees) : attendees[i] = attendees[j] => i = j
       /\ ret.event.Attendees = attendees

\* The hour and minute the time words of the claims stand for.
ClockOf ==
  [s \in {"2pm", "3:30pm", "14:30"} |->
     CASE s = "2pm" -> <<14, 0, 0>> [] s = "3:30pm" -> <<15, 30, 0>> [] s = "14:30" -> <<14, 30, 0>>]

\* v is the RFC 3339 string of a date n days after the date of now, at the
\* given clock time, in the zone tz.
DaysAfter(v, now, n, clock, tz) ==
  /\ Len(v) = 7
  /\ v[2] \in 1..12
  /\ v[3] \in 1..DaysIn(v[1], v[2])
  /\ DayNumber(v[1], v[2], v[3]) = DayNumber(now.year, now.month, now.day) + n
  /\ <<v[4], v[5], v[6]>> = clock
  /\ v[7] = tz

\* C25: parseRelativeDate resolves "today", "tomorrow" and "yesterday" to
\* midnight of the date of now plus 0, 1 and -1 days in the zone it is given,
\* with the hour and minute of "<day> at <time>" in place of midnight, and
\* "now" to now; with now = Mon 2024-01-15 10:00 -05:00, "tomorrow at 2pm"
\* gives 2024-01-16T14:00:00-05:00.
C25_RelativeDates ==
  (call.fn = "parseRelativeDate" /\ ret # NilResult)
    => LET input == call.input
           timed == Len(input) = 3
           n == CASE input[1] = "today" -> 0 [] input[1] = "tomorrow" -> 1 [] OTHER -> -1
       IN  /\ input = <<"now">>
                => ret.err = Nil /\ ret.value = FormatRFC3339(call.now)
           /\ (/\ input[1] \in {"today", "tomorrow", "yesterday"}
               /\ timed => input[3] \in DOMAIN ClockOf)
                => /\ ret.err = Nil
                   /\ DaysAfter(ret.value, call.now, n,
                                IF timed THEN ClockOf[input[3]] ELSE <<0, 0, 0>>, call.tz)
           /\ (/\ input = <<"tomorrow", "at", "2pm">>
               /\ call.now = Date(2024, 1, 15, 10, 0, -5))
                => ret.value = <<2024, 1, 16, 14, 0, 0, -5>>

\* "yesterday at 3:30pm" asked on 1 March 2024 gave 29 February, 15:30.
C25_Witness ==
  /\ call.fn = "parseRelativeDate"
  /\ call.input = <<"yesterday", "at", "3:30pm">>
  /\ call.now = Date(2024, 3, 1, 0, 0, 1)
  /\ ret # NilResult
  /\ ret.value = <<2024, 2, 29, 15, 30, 0, 1>>

WeekdayNames ==
  <<"sunday", "monday", "tuesday", "wednesday", "thursday", "friday", "saturday">>

\* C26: for every weekday of now and every weekday name w, parseDayOfWeek
\* resolves "next w" and "w" to the date 1 to 7 days after the date of now
\* that falls on w, "this w" to the one 0 to 6 days after it, "last w" to the
\* one 1 to 7 days before it, at midnight in the zone it is given or at the
\* hour and minute of an "at <time>" part.
C26_DayOfWeek ==
  (call.fn = "parseDayOfWeek" /\ ret # NilResult)
    => LET input == call.input
           modified == input[1] \in {"next", "this", "last"}
           modifier == IF modified THEN input[1] ELSE "next"
           name == IF modified THEN input[2] ELSE input[1]
           timed == Len(input) > (IF modified THEN 2 ELSE 1)
           w == (CHOOSE k \in 1..7 : WeekdayNames[k] = name) - 1
           v == ret.value
           n == DayNumber(v[1], v[2], v[3])
                  - DayNumber(call.now.year, call.now.month, call.now.day)
       IN  (/\ name \in Range(WeekdayNames)
            /\ timed => input[Len(input)] \in DOMAIN ClockOf)
             => /\ ret.err = Nil
                /\ DaysAfter(v, call.now, n,
                             IF timed THEN ClockOf[input[Len(input)]] ELSE <<0, 0, 0>>,
                             call.tz)
                /\ DayNumber(v[1], v[2], v[3]) % 7 = w
                /\ modifier = "next" => n \in 1..7
                /\ modifier = "this" => n \in 0..6
                /\ modifier = "last" => n \in (-7)..(-1)
                /\ (/\ modifier = "next"
                    /\ DayNumber(call.now.year, call.now.month, call.now.day) % 7 = w) => n = 7

\* "monday at 2pm" asked on Monday 15 January 2024 gave Monday 22 January.
C26_Witness ==
  /\ call.fn = "parseDayOfWeek"
  /\ call.input = <<"monday", "at", "2pm">>
  /\ call.now = Date(2024, 1, 15, 10, 0, -5)
  /\ ret # NilResult
  /\ ret.value = <<2024, 1, 22, 14, 0, 0, -5>>

\* ------------------------------------------- shared state, retry and backoff
\* C27: while the goroutines of a batch call run, a step changes no object
\* they share other than the results slice, and changes that slice only as
\* the holder of the mutex.
C27_OnlyResultsShared ==
  [][(bpc = "wait" /\ bpc' = "wait")
       => /\ ErrAPIError' = ErrAPIError
          /\ results' # results => (mu = 0 /\ mu' \in Tasks)]_vars

\* C28: when withRetry has returned after using up its attempts, the error
\* it returned is an AppError whose details name the operation of this call
\* and the number of attempts made, and whose cause is the last error of
\* this call's wrapped function, whatever other withRetry calls do.
C28_ExhaustionReported ==
  (pc = "handle" /\ hist.exit = "wrapped" /\ hist.firstFatal = 0 /\ hist.calls > 0)
    => /\ retErr.ref \in {"new", "ErrAPIError"}
       /\ Deref(ErrAPIError, retErr).Details
            = Sprintf("%s failed after %d attempts", <<operation>>, <<hist.calls>>)
       /\ Deref(ErrAPIError, retErr).wrapped = hist.lastCall

\* C29: a multi-calendar call in which every remote call either succeeds or
\* fails with a retryable status that a repeated call would not meet again
\* returns no error (the Client allows retries).
C29_TransientFailureRetried ==
  (/\ mpc = "returned"
   /\ NC > 0
   /\ c.MaxRetries >= 1
   /\ \A i \in Goroutines :
        gout[i].err = Nil \/ (isRetryable(gout[i].err) /\ gout[i].again = "success"))
    => mret.err = Nil

\* C30: a backoff wait runs before every invocation but the first, and the
\* k-th wait lasts RetryDelay * 2^(k-1): each wait is twice the one before.
C30_BackoffDoubles ==
  /\ Len(hist.delays) = hist.waits
  /\ pc = "call" => hist.waits = hist.calls
  /\ hist.calls <= hist.waits + 1
  /\ \A k \in 1..Len(hist.delays) :
       /\ hist.delays[k] = c.RetryDelay * (2 ^ (k - 1))
       /\ k > 1 => /\ hist.delays[k] = 2 * hist.delays[k - 1]
                   /\ hist.delays[k] > hist.delays[k - 1]

\* Four invocations separated by waits of 2, 4 and 8 seconds.
C30_Witness ==
  /\ c.RetryDelay = 2
  /\ hist.calls = 4
  /\ hist.delays = <<2, 4, 8>>

\* C31: the merged event list of ListEventsMultiCalendar is sorted stably:
\* for every start key, the events with that key stand in the returned list
\* in the order in which they stood in the list before sorting.
C31_StableSort ==
  [][(mpc = "wait" /\ mpc' = "returned" /\ m.kind = "list" /\ mret'.err = Nil)
       => \A k \in {startKey(mres.Events[i]) : i \in 1..Len(mres.Events)} :
            SelectSeq(mres'.Events, LAMBDA e : startKey(e) = k)
              = SelectSeq(mres.Events, LAMBDA e : startKey(e) = k)]_vars

\* The attendee set after operation op on the set s.
ApplyOperation(op, s) == (s \ Range(op.Remove)) \cup Range(op.Add)

\* C32: when two concurrent ManageAttendees calls on one event have both
\* returned without error, the attendee set of the event is what the two
\* operations give when applied one after the other, in one order or the
\* other.
C32_ConcurrentManageSerializable ==
  (\A i \in Callers : callers[i].pc = "returned" /\ callers[i].err = Nil)
    => Range(attendees) \in
         {ApplyOperation(callers[2].operation,
                         ApplyOperation(callers[1].operation, Range(call.existing))),
          ApplyOperation(callers[1].operation,
                         ApplyOperation(callers[2].operation, Range(call.existing)))}

RejectedCode(params) ==
  IF params.Summary = "" \/ params.Start = 0 \/ params.End = 0 THEN ErrCodeMissingRequired
  ELSE IF params.Start >= params.End THEN ErrCodeInvalidTimeRange
  ELSE IF \E i \in 1..Len(params.Attendees) : ~isValidEmail(params.Attendees[i])
  THEN ErrCodeInvalidInput
  ELSE ""

\* C34: CreateEvent with an empty summary, a zero start, a zero end, a start
\* not before the end or an invalid attendee address returns the validation
\* error and makes no remote call: withRetry is never entered.
C34_RejectedCreateMakesNoCall ==
  (req.api = "CreateEvent" /\ RejectedCode(req.params) # "")
    => /\ pc \in {"entry", "returned"}
       /\ hist.calls = 0
       /\ operation = ""
       /\ pc = "returned" => (/\ result # Nil
                              /\ result.ref = "new"
                              /\ result.Code = RejectedCode(req.params))

\* CreateEvent returned INVALID_INPUT for an attendee list with a bad
\* address, all other parameters being good.
C34_Witness ==
  /\ req.api = "CreateEvent"
  /\ req.params.Summary # ""
  /\ 0 < req.params.Start
  /\ req.params.Start < req.params.End
  /\ req.params.Attendees = <<"a@b.co", "a@bc">>
  /\ pc = "returned"
  /\ result.Code = ErrCodeInvalidInput

\* C35: ParseNaturalLanguageDate returns one instant and no error, or an
\* error and no instant, and what it returns is what the first matcher that
\* matches gives when the relative dates are tried first, then the weekdays,
\* then the offsets; it is an error when none of them matches.
C35_MatcherPriority ==
  (call.fn = "ParseNaturalLanguageDate" /\ ret # NilResult)
    => LET relative == parseRelativeDate(call.input, call.now, call.tz)
           weekday == parseDayOfWeek(call.input, call.now, call.tz)
           offset == parseTimeOffset(call.input, call.now)
           first == IF relative.err = Nil THEN relative
                    ELSE IF weekday.err = Nil THEN weekday
                    ELSE IF offset.err = Nil THEN offset
                    ELSE [value |-> <<>>, err |-> OtherError]
       IN  /\ (ret.err = Nil) <=> Len(ret.value) = 7
           /\ (ret.err # Nil) <=> ret.value = <<>>
           /\ (ret.err = Nil) <=> (first.err = Nil)
           /\ ret.value = first.value

\* "in 30 hours" asked at 23:00 on 31 December 2023 gave 05:00 on
\* 2 January 2024.
C35_Witness ==
  /\ call.fn = "ParseNaturalLanguageDate"
  /\ call.input = <<"in", "30", "hour">>
  /\ call.now = Date(2023, 12, 31, 23, 0, 1)
  /\ ret # NilResult
  /\ ret.err = Nil
  /\ ret.value = <<2024, 1, 2, 5, 0, 0, 1>>

\* The longest Unwrap chain followed.
MaxUnwrap == 4

\* err.Unwrap() with g the object behind types.ErrAPIError: the wrapped
\* error of an AppError, nil for the other errors.
Unwrap(g, err) == IF err.ref \in {"new", "ErrAPIError"} THEN Deref(g, err).wrapped ELSE Nil

\* The errors met from err on by calling Unwrap up to n times, nil left out.
RECURSIVE UnwrapChain(_, _, _)
UnwrapChain(g, err, n) ==
  IF err = Nil THEN <<>>
  ELSE IF n = 0 THEN <<err>>
  ELSE <<err>> \o UnwrapChain(g, Unwrap(g, err), n - 1)

\* C36: when a single-event call has returned after its remote call failed
\* for good, following Unwrap from the returned error reaches nil within
\* MaxUnwrap steps and meets the error the remote call returned last.
C36_CauseReachable ==
  (pc = "returned" /\ hist.exit = "wrapped" /\ hist.calls > 0)
    => /\ result # Nil
       /\ Len(UnwrapChain(ErrAPIError, result, MaxUnwrap)) <= MaxUnwrap
       /\ hist.lastCall \in Range(UnwrapChain(ErrAPIError, result, MaxUnwrap))

\* C37: a call of FindFreeSlots or FindCommonFreeTime, whatever the slot
\* duration, comes to its end: its loop reaches a position where
\* current + slotDuration is after end, or the call returns before the loop.
C37_SlotLoopTerminates == <>(fpc = "done")

\* A batch call or a multi-calendar call has returned, every goroutine it
\* started having ended, every permit given back and the mutex free.
BulkDone ==
  \/ /\ bpc = "returned"
     /\ \A i \in DOMAIN tpc : tpc[i] = "done"
     /\ sem = 0
     /\ mu = 0
  \/ /\ mpc = "returned"
     /\ \A i \in DOMAIN gpc : gpc[i] = "done"
     /\ mlock = 0

\* A step of the caller or of one of its goroutines.
BulkStep ==
  \/ BatchEnter
  \/ \E i \in Tasks : TaskAcquire(i) \/ TaskOp(i) \/ TaskStore(i) \/ TaskUnlock(i) \/ TaskRelease(i)
  \/ BatchReturn
  \/ MultiEnter
  \/ \E i \in Goroutines : CalendarCall(i) \/ CalendarStore(i) \/ CalendarUnlock(i)
  \/ MultiReturn

\* How far a caller or a goroutine has come.
PcRank(p) ==
  CASE p \in {"idle", "entry", "unborn"} -> 0
    [] p \in {"wait", "acquire", "call"} -> 1
    [] p = "op" -> 2
    [] p = "lock" -> 3
    [] p = "unlock" -> 4
    [] p = "release" -> 5
    [] p \in {"done", "returned"} -> 6

\* C38: a batch call and a multi-calendar call are free of deadlock.  Until
\* the call has returned, with every goroutine ended, every permit given
\* back and the mutex free, the caller or a goroutine can take a step (no
\* one waits for a permit, the mutex or the error channel that nobody will
\* provide), and every step other than the cancellation of the context
\* takes the caller or a goroutine forward and none back, so that the steps
\* run out and the call returns.
C38_BulkCallsReturn ==
  /\ [](BulkDone \/ ENABLED BulkStep)
  /\ [][\/ ctxDone' # ctxDone
        \/ /\ PcRank(bpc') >= PcRank(bpc)
           /\ PcRank(mpc') >= PcRank(mpc)
           /\ \A i \in DOMAIN tpc : PcRank(tpc'[i]) >= PcRank(tpc[i])
           /\ \A i \in DOMAIN gpc : PcRank(gpc'[i]) >= PcRank(gpc[i])
           /\ \/ PcRank(bpc') > PcRank(bpc)
              \/ PcRank(mpc') > PcRank(mpc)
              \/ \E i \in DOMAIN tpc : PcRank(tpc'[i]) > PcRank(tpc[i])
              \/ \E i \in DOMAIN gpc : PcRank(gpc'[i]) > PcRank(gpc[i])]_vars

\* A batch of MaxItems items with one permit has returned, the last item
\* having taken the permit after the others gave it back.
C38_Witness ==
  /\ bpc = "returned"
  /\ N = MaxItems
  /\ semCap = 1
  /\ sem = 0
  /\ order[1] = N
  /\ \A i \in Tasks : tpc[i] = "done"


\* The sum of the counts a ByCalendar map holds.
RECURSIVE SumCounts(_)
SumCounts(byCalendar) ==
  IF DOMAIN byCalendar = {} THEN 0
  ELSE LET k == CHOOSE x \in DOMAIN byCalendar : TRUE
       IN byCalendar[k] + SumCounts([x \in (DOMAIN byCalendar) \ {k} |-> byCalendar[x]])

\* C39: whenever ListEventsMultiCalendar returns successfully, TotalCount is
\* the number of returned events and the sum of the ByCalendar counts, and
\* ByCalendar has an entry for every requested calendar ID, whatever the
\* list of calendar IDs, lists naming one calendar more than once included.
C39_CountsAgree ==
  (mpc = "returned" /\ m.kind = "list" /\ mret.err = Nil) =>
    /\ mret.result.TotalCount = Len(mret.result.Events)
    /\ mret.result.TotalCount = SumCounts(mret.result.ByCalendar)
    /\ \A i \in Goroutines : m.calendarIDs[i] \in DOMAIN mret.result.ByCalendar


\* C40: for every configuration of the Client, withRetry invokes the wrapped
\* call at least once; it returns nil as soon as an invocation succeeds and
\* never invokes the call again after a successful invocation; it returns a
\* non-nil error only if every invocation it made failed.
C40_AtLeastOneInvocation ==
  /\ [](/\ hist.exit # "running" => hist.calls >= 1
        /\ (hist.calls > 0 /\ hist.lastCall = Nil) => hist.exit = "nil"
        /\ hist.exit \in {"cancelled", "wrapped"} =>
             hist.calls = hist.retryable + (IF hist.firstFatal # 0 THEN 1 ELSE 0))
  /\ [][hist.exit = "nil" => (hist'.calls <= hist.calls)]_vars

====
